---------------------------- MODULE Spec2Model ----------------------------
(***************************************************************************)
(* Model of the player-id signature scanner: the BNDM pattern matcher      *)
(* (src/player_id/bndm.rs), the SID container header detector              *)
(* (src/utils/sid_file.rs) and the per-file signature scan                 *)
(* (src/player_id/signature.rs, src/player_id.rs).                         *)
(*                                                                         *)
(* Option<T> values are records: Some(v) and None.  A Rust panic (index    *)
(* out of range, slice start past the end, usize underflow) is the         *)
(* distinguished result Panic.                                             *)
(***************************************************************************)
EXTENDS Integers, Sequences, FiniteSets, TLC

VARIABLES
    pc,                 \* position of the modelled call
    source,             \* find_pattern: the byte slice searched
    pattern,            \* BndmConfig.pattern
    wildcard,           \* BndmConfig.wildcard
    result,             \* find_pattern's return value
    filename,           \* find_players_in_file: the path, as a sequence of characters
    data,               \* the file's bytes
    data_offset,        \* the payload offset computed for the file
    signatures,         \* the signature set: Vec<SignatureConfig>
    scan_for_multiple,  \* report every matching signature, not only the first
    matches,            \* the returned Vec<SignatureMatch>
    signature_text,     \* process_signature_value: the value text
    words,              \* its upper-cased whitespace-separated words
    word_index,         \* the number of words the loop has consumed
    signature_values,   \* `signature`: the u16 tokens of the sub-pattern being collected
    bndm_configs,       \* the sub-patterns pushed so far
    cw,                 \* calculate_wildcard: its locals while it runs
    config_lines,       \* the lines of the config file
    signature_name_to_filter, \* read_config_file: the optional name filter
    line_index,         \* the number of lines the reader has consumed
    signature_name,     \* the reader's current signature name
    signature_lines,    \* the value lines not yet processed
    new_format,         \* convert_file_format: `&&` form (true) or `END` form
    output_string,      \* the text convert_ids_to_string returns
    reloaded,           \* the signatures read back from the converted file
    issues_found,       \* verify_config_file: its result
    files,              \* run: the files found, each with what reading it gives
    list_unidentified,  \* the -u flag
    only_list_unidentified, \* the -o flag
    players_found,      \* the PlayerInfo entries kept for listing
    player_index,       \* the number of entries the listing loop has printed
    identified_players, \* the summary counters
    identified_files,
    unidentified_files,
    processed_files,
    load_result,        \* load_config_file: its return value
    path_argument,      \* split_file_path: the filename argument
    split_result,       \* its return value
    window_i,           \* find_small_pattern / find_large_pattern: i
    window_j,           \* j
    window_last,        \* last
    window_d,           \* d
    window_masks,       \* BndmConfig.masks of the stepped search
    cpu_threads,        \* run: the number of worker threads of the pool
    task_state,         \* the per-file scan tasks: "pending", "running" or "done"
    task_result         \* what each finished task returned

vars == <<pc, source, pattern, wildcard, result,
          filename, data, data_offset, signatures, scan_for_multiple, matches,
          signature_text, words, word_index, signature_values, bndm_configs, cw,
          config_lines, signature_name_to_filter, line_index, signature_name,
          signature_lines, new_format, output_string, reloaded, issues_found,
          files, list_unidentified, only_list_unidentified, players_found,
          player_index, identified_players, identified_files, unidentified_files,
          processed_files, load_result, path_argument, split_result,
          window_i, window_j, window_last, window_d, window_masks,
          cpu_threads, task_state, task_result>>

bndmVars == <<source, pattern, wildcard, result>>

scanVars == <<filename, data, data_offset, signatures, scan_for_multiple, matches>>

valueVars == <<signature_text, words, word_index, signature_values, bndm_configs, cw>>

\* The variables of the config side of the program (parser, validator,
\* converter, driver).
parseVars == <<config_lines, signature_name_to_filter, line_index, signature_name,
               signature_lines>>

convertVars == <<new_format, output_string, reloaded>>

verifyVars == <<issues_found>>

runVars == <<files, list_unidentified, only_list_unidentified, players_found,
             player_index, identified_players, identified_files, unidentified_files,
             processed_files>>

loadVars == <<load_result>>

splitVars == <<path_argument, split_result>>

windowVars == <<window_i, window_j, window_last, window_d, window_masks>>

poolVars == <<cpu_threads, task_state, task_result>>

restVars == <<loadVars, splitVars, windowVars, poolVars>>

configVars == <<valueVars, parseVars, convertVars, verifyVars, runVars, restVars>>

\* The config side before anything was parsed.
ValueIdle ==
    /\ signature_text = <<>>
    /\ words = <<>>
    /\ word_index = 0
    /\ signature_values = <<>>
    /\ bndm_configs = <<>>
    /\ cw = <<>>

ParseIdle ==
    /\ config_lines = <<>>
    /\ signature_name_to_filter = [kind |-> "None", val |-> 0]
    /\ line_index = 0
    /\ signature_name = <<>>
    /\ signature_lines = <<>>

ConvertIdle ==
    /\ new_format = FALSE
    /\ output_string = <<>>
    /\ reloaded = <<>>

VerifyIdle == issues_found = FALSE

RunIdle ==
    /\ files = <<>>
    /\ list_unidentified = FALSE
    /\ only_list_unidentified = FALSE
    /\ players_found = <<>>
    /\ player_index = 0
    /\ identified_players = 0
    /\ identified_files = 0
    /\ unidentified_files = 0
    /\ processed_files = 0

LoadIdle == load_result = <<>>

SplitIdle ==
    /\ path_argument = <<>>
    /\ split_result = <<>>

WindowIdle ==
    /\ window_i = 0
    /\ window_j = 0
    /\ window_last = 0
    /\ window_d = 0
    /\ window_masks = <<>>

PoolIdle ==
    /\ cpu_threads = 0
    /\ task_state = <<>>
    /\ task_result = <<>>

RestIdle == LoadIdle /\ SplitIdle /\ WindowIdle /\ PoolIdle

ConfigIdle ==
    ValueIdle /\ ParseIdle /\ ConvertIdle /\ VerifyIdle /\ RunIdle /\ RestIdle

\* The matcher and the scanner before any call.
BndmIdle ==
    /\ source = <<>>
    /\ pattern = <<>>
    /\ wildcard = [kind |-> "None", val |-> 0]
    /\ result = [kind |-> "None", val |-> 0]

ScanIdle ==
    /\ filename = <<>>
    /\ data = <<>>
    /\ data_offset = 0
    /\ signatures = <<>>
    /\ scan_for_multiple = FALSE
    /\ matches = <<>>

---------------------------------------------------------------------------
(* Bounds of the model. *)

\* Machine word width in bits.  The program uses usize::BITS (32 or 64); the
\* search is parametric in it, and the model runs it on a narrow word so that
\* patterns longer than a word stay enumerable.
WORD_SIZE_IN_BITS == 3

MaxSourceLen == 5

MaxPatternLen == 4

\* Longest raw file of the scanner's enumeration.
MaxDataLen == 4

\* Largest signature set of the scanner's enumeration.
MaxSignatures == 2

\* Byte values the enumerated sources and patterns are drawn from.
SampleBytes == {0, 1, 2}

Byte == 0 .. 255

---------------------------------------------------------------------------
(* Option and panic values. *)

Some(v) == [kind |-> "Some", val |-> v]

None == [kind |-> "None", val |-> 0]

Panic == [kind |-> "Panic", val |-> 0]

IsSome(o) == o.kind = "Some"

\* All sequences over S of length 0 .. n.
SeqsUpTo(S, n) == UNION {[1 .. k -> S] : k \in 0 .. n}

\* Rust's zero-based v[k].
Idx(v, k) == v[k + 1]

\* Rust's &v[from..].
SliceFrom(v, from) == SubSeq(v, from + 1, Len(v))

---------------------------------------------------------------------------
(* usize arithmetic on WORD_SIZE_IN_BITS bits. *)

RECURSIVE Pow2(_)
Pow2(n) == IF n = 0 THEN 1 ELSE 2 * Pow2(n - 1)

WordModulus == Pow2(WORD_SIZE_IN_BITS)

RECURSIVE BitAnd(_, _)
\* a & b
BitAnd(a, b) ==
    IF a = 0 \/ b = 0 THEN 0
    ELSE (a % 2) * (b % 2) + 2 * BitAnd(a \div 2, b \div 2)

RECURSIVE BitOr(_, _)
\* a | b
BitOr(a, b) ==
    IF a = 0 THEN b
    ELSE IF b = 0 THEN a
    ELSE (IF (a % 2) + (b % 2) > 0 THEN 1 ELSE 0) + 2 * BitOr(a \div 2, b \div 2)

\* a << n: bits shifted past the word are lost
Shl(a, n) == (a * Pow2(n)) % WordModulus

\* a >> n
Shr(a, n) == a \div Pow2(n)

---------------------------------------------------------------------------
(* bndm.rs: BndmConfig::new and the mask tables. *)

Min(a, b) == IF a < b THEN a ELSE b

get_pattern_length_within_cpu_word(search_pattern) ==
    Min(Len(search_pattern), WORD_SIZE_IN_BITS)

RECURSIVE WildcardMaskFrom(_, _, _, _, _)
WildcardMaskFrom(search_pattern, w, bit_select, len, i) ==
    IF i = len THEN 0
    ELSE BitOr(IF Idx(search_pattern, i) = w THEN Shr(bit_select, i) ELSE 0,
               WildcardMaskFrom(search_pattern, w, bit_select, len, i + 1))

\* calculate_wildcard_mask with bit_select one position too high.
calculate_wildcard_mask_shifted(search_pattern, wc) ==
    IF IsSome(wc)
    THEN LET len == get_pattern_length_within_cpu_word(search_pattern)
         IN  IF len > 0
             THEN WildcardMaskFrom(search_pattern, wc.val, Shl(1, len), len, 0)
             ELSE 0
    ELSE 0

calculate_wildcard_mask(search_pattern, wc) ==
    IF IsSome(wc)
    THEN LET len == get_pattern_length_within_cpu_word(search_pattern)
         IN  IF len > 0
             THEN WildcardMaskFrom(search_pattern, wc.val, Shl(1, len - 1), len, 0)
             ELSE 0
    ELSE 0

RECURSIVE ByteMaskFrom(_, _, _, _, _)
ByteMaskFrom(search_pattern, b, bit_select, len, i) ==
    IF i = len THEN 0
    ELSE BitOr(IF Idx(search_pattern, i) = b THEN Shr(bit_select, i) ELSE 0,
               ByteMaskFrom(search_pattern, b, bit_select, len, i + 1))

\* The 256-entry table: every entry starts as default_mask, and entry
\* pattern[i] gets bit (len - 1 - i).
generate_masks(search_pattern, default_mask) ==
    LET len == get_pattern_length_within_cpu_word(search_pattern)
    IN  [b \in Byte |->
            IF len > 0
            THEN BitOr(default_mask,
                       ByteMaskFrom(search_pattern, b, Shl(1, len - 1), len, 0))
            ELSE default_mask]

\* BndmConfig::new.  The masks table is a function of the other two fields
\* and is kept out of the state: Masks(config) is config.masks.
BndmConfig_new(search_pattern, wc) ==
    [pattern |-> search_pattern, wildcard |-> wc]

Masks(config) ==
    generate_masks(config.pattern,
                   calculate_wildcard_mask(config.pattern, config.wildcard))

---------------------------------------------------------------------------
(* bndm.rs: the search. *)

\* source[k] with Rust's bounds check: TRUE when the read panics.
OutOfRange(src, k) == k < 0 \/ k >= Len(src)

RECURSIVE SmallOuter(_, _, _, _, _, _)
RECURSIVE SmallInner(_, _, _, _, _, _, _, _, _)
RECURSIVE SmallInner_last_not_recorded(_, _, _, _, _, _, _, _, _)

\* SmallInner without `last = j`: a matched prefix is not recorded and the
\* window always moves by len.
SmallInner_last_not_recorded(src, masks, len, end, df, i, j, last, d) ==
    IF d = 0 THEN SmallOuter(src, masks, len, end, df, i + last)
    ELSE LET j1 == j - 1
             hit == BitAnd(d, df) # 0
         IN  IF hit /\ j1 = 0 THEN Some(i)
             ELSE IF OutOfRange(src, i + j1 - 1) THEN Panic
             ELSE SmallInner_last_not_recorded(src, masks, len, end, df, i, j1,
                             last,
                             BitAnd(Shl(d, 1), masks[Idx(src, i + j1 - 1)]))

\* find_small_pattern, the body of `while d != 0`.
SmallInner(src, masks, len, end, df, i, j, last, d) ==
    IF d = 0 THEN SmallOuter(src, masks, len, end, df, i + last)
    ELSE LET j1 == j - 1
             hit == BitAnd(d, df) # 0
         IN  IF hit /\ j1 = 0 THEN Some(i)
             ELSE IF OutOfRange(src, i + j1 - 1) THEN Panic
             ELSE SmallInner(src, masks, len, end, df, i, j1,
                             IF hit THEN j1 ELSE last,
                             BitAnd(Shl(d, 1), masks[Idx(src, i + j1 - 1)]))

\* find_small_pattern, the body of `while i < end`.
SmallOuter(src, masks, len, end, df, i) ==
    IF ~(i < end) THEN None
    ELSE IF OutOfRange(src, i + len) \/ OutOfRange(src, i + len - 1) THEN Panic
    ELSE LET d0 == masks[Idx(src, i + len)]
             d1 == BitAnd(Shl(d0, 1), masks[Idx(src, i + len - 1)])
         IN  SmallInner(src, masks, len, end, df, i, len, len, d1)

\* finds patterns up to CPU word size
find_small_pattern(src, config) ==
    LET len == Len(config.pattern) - 1
        end == Len(src) - len
    IN  IF len < 0 \/ end < 0 THEN Panic      \* usize subtraction underflows
        ELSE SmallOuter(src, Masks(config), len, end, Shl(1, len), 0)

RECURSIVE RemainingFrom(_, _, _, _)
RemainingFrom(src, search_pattern, wc, index) ==
    IF index = Len(search_pattern) THEN "true"
    ELSE IF OutOfRange(src, index) THEN "panic"
    ELSE IF \/ Idx(src, index) = Idx(search_pattern, index)
            \/ (IsSome(wc) /\ Idx(search_pattern, index) = wc.val)
         THEN RemainingFrom(src, search_pattern, wc, index + 1)
         ELSE "false"

\* find_remaining comparing the tail without wildcard tolerance.
find_remaining_no_wildcard(src, search_pattern, wc) ==
    RemainingFrom(src, search_pattern, None, 0)

\* find_remaining: "true", "false", or "panic" when source[index] is out of
\* range.
find_remaining(src, search_pattern, wc) ==
    RemainingFrom(src, search_pattern, wc, 0)

RECURSIVE LargeOuter(_, _, _, _, _, _, _)
RECURSIVE LargeInner(_, _, _, _, _, _, _, _, _, _)

\* find_large_pattern, the body of `while d != 0`.
LargeInner(src, config, masks, len, end, df, i, j, last, d) ==
    IF d = 0 THEN LargeOuter(src, config, masks, len, end, df, i + last)
    ELSE LET j1 == j - 1
             hit == BitAnd(d, df) # 0
             rem == IF hit /\ j1 = 0
                    THEN IF i + WORD_SIZE_IN_BITS > Len(src) THEN "panic"
                         ELSE find_remaining(
                                  SliceFrom(src, i + WORD_SIZE_IN_BITS),
                                  SliceFrom(config.pattern, WORD_SIZE_IN_BITS),
                                  config.wildcard)
                    ELSE "none"
             j2 == IF rem = "false" THEN j1 + 1 ELSE j1
         IN  IF rem = "true" THEN Some(i)
             ELSE IF rem = "panic" THEN Panic
             ELSE IF OutOfRange(src, i + j2 - 1) THEN Panic
             ELSE LargeInner(src, config, masks, len, end, df, i, j2,
                             IF hit THEN j2 ELSE last,
                             BitAnd(Shl(d, 1), masks[Idx(src, i + j2 - 1)]))

\* find_large_pattern, the body of `while i < end`.
LargeOuter(src, config, masks, len, end, df, i) ==
    IF ~(i < end) THEN None
    ELSE IF OutOfRange(src, i + len) \/ OutOfRange(src, i + len - 1) THEN Panic
    ELSE LET d0 == masks[Idx(src, i + len)]
             d1 == BitAnd(Shl(d0, 1), masks[Idx(src, i + len - 1)])
         IN  LargeInner(src, config, masks, len, end, df, i, len, len, d1)

\* finds patterns larger than CPU word size
find_large_pattern(src, config) ==
    LET len == WORD_SIZE_IN_BITS - 1
        end == Len(src) - (Len(config.pattern) - 1)
    IN  IF Len(config.pattern) < 1 \/ end < 0 THEN Panic   \* usize underflow
        ELSE LargeOuter(src, config, Masks(config), len, end, Shl(1, len), 0)

RECURSIVE PositionFrom(_, _, _)
\* source.iter().position(|&x| x == b), scanning from index k
PositionFrom(src, b, k) ==
    IF k = Len(src) THEN None
    ELSE IF Idx(src, k) = b THEN Some(k)
    ELSE PositionFrom(src, b, k + 1)

OneBytePosition(src, config) == PositionFrom(src, Idx(config.pattern, 0), 0)

\* find_pattern without the `x > source.len()` arm.
find_pattern_no_length_arm(src, config) ==
    LET x == Len(config.pattern)
    IN  IF x = 0 THEN None
        ELSE IF x = 1 THEN OneBytePosition(src, config)
        ELSE IF x > WORD_SIZE_IN_BITS THEN find_large_pattern(src, config)
        ELSE find_small_pattern(src, config)

find_pattern(src, config) ==
    LET x == Len(config.pattern)
    IN  IF x = 0 THEN None
        ELSE IF x = 1 THEN OneBytePosition(src, config)
        ELSE IF x > Len(src) THEN None
        ELSE IF x > WORD_SIZE_IN_BITS THEN find_large_pattern(src, config)
        ELSE find_small_pattern(src, config)

---------------------------------------------------------------------------
(* The matcher applied to every bounded input. *)

\* The wildcard byte of the enumerated configurations.
SampleWildcard == Some(2)

WildcardChoices == {None, SampleWildcard}

InitBndm ==
    /\ pc = "call"
    /\ ConfigIdle
    /\ source \in SeqsUpTo(SampleBytes, MaxSourceLen)
    /\ pattern \in SeqsUpTo(SampleBytes, MaxPatternLen)
    /\ wildcard \in WildcardChoices
    /\ result = None
    /\ filename = <<>>
    /\ data = <<>>
    /\ data_offset = 0
    /\ signatures = <<>>
    /\ scan_for_multiple = FALSE
    /\ matches = <<>>

FindPattern ==
    /\ pc = "call"
    /\ result' = find_pattern(source, BndmConfig_new(pattern, wildcard))
    /\ pc' = "done"
    /\ UNCHANGED <<source, pattern, wildcard>>
    /\ UNCHANGED scanVars
    /\ UNCHANGED configVars

NextBndm == FindPattern

SpecBndm == InitBndm /\ [][NextBndm]_vars

---------------------------------------------------------------------------
(* utils/sid_file.rs: the SID container header. *)

MIN_SID_HEADER_SIZE == 118

DATA_OFFSET_OFFSET == 6

LOAD_ADDRESS_OFFSET == 8

\* ASCII codes of the magic's letters.
CharR == 82

CharP == 80

CharS == 83

CharI == 73

CharD == 68

is_sid_file(src) ==
    /\ Len(src) >= MIN_SID_HEADER_SIZE
    /\ (Idx(src, 0) = CharR \/ Idx(src, 0) = CharP)
    /\ Idx(src, 1) = CharS
    /\ Idx(src, 2) = CharI
    /\ Idx(src, 3) = CharD

\* sid_file::get_data_offset
get_data_offset(src) ==
    IF Len(src) >= MIN_SID_HEADER_SIZE
    THEN LET header_size == Idx(src, DATA_OFFSET_OFFSET) * 256
                            + Idx(src, DATA_OFFSET_OFFSET + 1)
         IN  IF header_size >= MIN_SID_HEADER_SIZE /\ header_size <= Len(src)
             THEN LET has_load_address_in_data ==
                          /\ Idx(src, LOAD_ADDRESS_OFFSET) = 0
                          /\ Idx(src, LOAD_ADDRESS_OFFSET + 1) = 0
                  IN  IF has_load_address_in_data
                      THEN header_size + 2
                      ELSE header_size
             ELSE 0
    ELSE 0

\* str::ends_with on character sequences
EndsWith(name, suffix) ==
    /\ Len(name) >= Len(suffix)
    /\ SubSeq(name, Len(name) - Len(suffix) + 1, Len(name)) = suffix

PrgSuffix == <<".", "p", "r", "g">>

\* PlayerId::get_data_offset with the `.prg` rule tried first.
PlayerId_get_data_offset_prg_first(name, src) ==
    IF EndsWith(name, PrgSuffix) THEN 2
    ELSE IF is_sid_file(src) THEN get_data_offset(src)
    ELSE 0

\* PlayerId::get_data_offset
PlayerId_get_data_offset(name, src) ==
    IF is_sid_file(src) THEN get_data_offset(src)
    ELSE IF EndsWith(name, PrgSuffix) THEN 2
    ELSE 0

---------------------------------------------------------------------------
(* player_id/signature.rs: Signature::find_signatures. *)

SignatureConfig(name, configs) ==
    [signature_name |-> name, bndm_configs |-> configs]

SignatureMatch(name, indexes) ==
    [signature_name |-> name, indexes |-> indexes]

RECURSIVE SubPatternLoop_relative_index(_, _, _, _, _)
\* The sub-pattern loop pushing `index` instead of `last_index + index`.
SubPatternLoop_relative_index(src, configs, k, last_index, indexes) ==
    IF k > Len(configs) THEN [status |-> "found", indexes |-> indexes]
    ELSE IF last_index > Len(src) THEN [status |-> "panic", indexes |-> <<>>]
    ELSE LET config == configs[k]
             index == find_pattern(SliceFrom(src, last_index), config)
         IN  IF index = Panic THEN [status |-> "panic", indexes |-> <<>>]
             ELSE IF IsSome(index)
             THEN SubPatternLoop_relative_index(src, configs, k + 1,
                                 last_index + index.val + Len(config.pattern),
                                 Append(indexes, index.val))
             ELSE [status |-> "abandoned", indexes |-> <<>>]

RECURSIVE SubPatternLoop_restart_at_match(_, _, _, _, _)
\* The sub-pattern loop with `last_index += index`: the next sub-pattern is
\* searched from the start of the previous match, not from its end.
SubPatternLoop_restart_at_match(src, configs, k, last_index, indexes) ==
    IF k > Len(configs) THEN [status |-> "found", indexes |-> indexes]
    ELSE IF last_index > Len(src) THEN [status |-> "panic", indexes |-> <<>>]
    ELSE LET config == configs[k]
             index == find_pattern(SliceFrom(src, last_index), config)
         IN  IF index = Panic THEN [status |-> "panic", indexes |-> <<>>]
             ELSE IF IsSome(index)
             THEN SubPatternLoop_restart_at_match(src, configs, k + 1,
                                 last_index + index.val,
                                 Append(indexes, last_index + index.val))
             ELSE [status |-> "abandoned", indexes |-> <<>>]

RECURSIVE SubPatternLoop(_, _, _, _, _)
\* `for config in &signature.bndm_configs`, from the k-th sub-pattern on.
\* status "found": index_found stayed true; "abandoned": the break;
\* "panic": &source[last_index..] or the matcher panicked.
SubPatternLoop(src, configs, k, last_index, indexes) ==
    IF k > Len(configs) THEN [status |-> "found", indexes |-> indexes]
    ELSE IF last_index > Len(src) THEN [status |-> "panic", indexes |-> <<>>]
    ELSE LET config == configs[k]
             index == find_pattern(SliceFrom(src, last_index), config)
         IN  IF index = Panic THEN [status |-> "panic", indexes |-> <<>>]
             ELSE IF IsSome(index)
             THEN SubPatternLoop(src, configs, k + 1,
                                 last_index + index.val + Len(config.pattern),
                                 Append(indexes, last_index + index.val))
             ELSE [status |-> "abandoned", indexes |-> <<>>]

RECURSIVE SignatureLoop_no_break(_, _, _, _, _, _)
\* The signature loop without `if !scan_for_multiple { break; }`.
SignatureLoop_no_break(src, start_offset, sigs, multiple, s, found) ==
    IF s > Len(sigs) THEN [panicked |-> FALSE, matches |-> found]
    ELSE LET signature == sigs[s]
             r == SubPatternLoop(src, signature.bndm_configs, 1, start_offset, <<>>)
         IN  IF r.status = "panic" THEN [panicked |-> TRUE, matches |-> <<>>]
             ELSE IF r.status = "found"
             THEN SignatureLoop_no_break(src, start_offset, sigs, multiple, s + 1,
                      Append(found, SignatureMatch(signature.signature_name, r.indexes)))
             ELSE SignatureLoop_no_break(src, start_offset, sigs, multiple, s + 1, found)

RECURSIVE SignatureLoop(_, _, _, _, _, _)
\* `for signature in signatures`, from the s-th signature on.
SignatureLoop(src, start_offset, sigs, multiple, s, found) ==
    IF s > Len(sigs) THEN [panicked |-> FALSE, matches |-> found]
    ELSE LET signature == sigs[s]
             r == SubPatternLoop(src, signature.bndm_configs, 1, start_offset, <<>>)
         IN  IF r.status = "panic" THEN [panicked |-> TRUE, matches |-> <<>>]
             ELSE IF r.status = "found"
             THEN LET pushed == Append(found,
                          SignatureMatch(signature.signature_name, r.indexes))
                  IN  IF ~multiple
                      THEN [panicked |-> FALSE, matches |-> pushed]
                      ELSE SignatureLoop(src, start_offset, sigs, multiple, s + 1, pushed)
             ELSE SignatureLoop(src, start_offset, sigs, multiple, s + 1, found)

RECURSIVE DedupFrom(_, _, _)
\* Vec::dedup_by(|a, b| a.signature_name.eq(&b.signature_name)): an element
\* equal in name to the last one kept is removed.
DedupFrom(found, k, kept) ==
    IF k > Len(found) THEN kept
    ELSE IF kept # <<>> /\ found[k].signature_name = kept[Len(kept)].signature_name
         THEN DedupFrom(found, k + 1, kept)
         ELSE DedupFrom(found, k + 1, Append(kept, found[k]))

\* A variant that keeps one record per name.
dedup_by_signature_name_anywhere(found) ==
    LET keep == SelectSeq([k \in DOMAIN found |-> k],
                          LAMBDA k : \A h \in 1 .. k - 1 :
                              found[h].signature_name # found[k].signature_name)
    IN  [r \in DOMAIN keep |-> found[keep[r]]]

dedup_by_signature_name(found) == DedupFrom(found, 1, <<>>)

\* Signature::find_signatures
find_signatures(src, start_offset, sigs, multiple) ==
    LET r == SignatureLoop(src, start_offset, sigs, multiple, 1, <<>>)
    IN  IF r.panicked THEN r
        ELSE [panicked |-> FALSE, matches |-> dedup_by_signature_name(r.matches)]

---------------------------------------------------------------------------
(* The scan of one file or buffer against every bounded signature set. *)

\* Sub-patterns as the config parser builds them: the wildcard is the
\* smallest byte that is no literal of the sub-pattern (0 here), and a `??`
\* token is stored as that byte.
SampleSignatures ==
    { SignatureConfig("A", <<BndmConfig_new(<<1, 2>>, Some(0))>>),     \* 01 02
      SignatureConfig("A", <<BndmConfig_new(<<1>>, Some(0)),
                             BndmConfig_new(<<1>>, Some(0))>>),        \* 01 AND 01
      SignatureConfig("B", <<BndmConfig_new(<<1, 0, 2>>, Some(0))>>),  \* 01 ?? 02
      SignatureConfig("B", <<BndmConfig_new(<<2>>, Some(0))>>),        \* 02
      SignatureConfig("C", <<BndmConfig_new(<<0>>, Some(0))>>) }       \* ??

SampleFileNames ==
    { <<"t", ".", "p", "r", "g">>, <<"t", ".", "s", "i", "d">> }

\* A file of MIN_SID_HEADER_SIZE header bytes followed by body: the magic,
\* the big-endian header size at 6..7, the load address at 8..9, zeros
\* elsewhere.
SidFile(magic0, header_size, load_hi, load_lo, body) ==
    [i \in 1 .. MIN_SID_HEADER_SIZE + Len(body) |->
        IF i = 1 THEN magic0
        ELSE IF i = 2 THEN CharS
        ELSE IF i = 3 THEN CharI
        ELSE IF i = 4 THEN CharD
        ELSE IF i = DATA_OFFSET_OFFSET + 1 THEN header_size \div 256
        ELSE IF i = DATA_OFFSET_OFFSET + 2 THEN header_size % 256
        ELSE IF i = LOAD_ADDRESS_OFFSET + 1 THEN load_hi
        ELSE IF i = LOAD_ADDRESS_OFFSET + 2 THEN load_lo
        ELSE IF i > MIN_SID_HEADER_SIZE THEN body[i - MIN_SID_HEADER_SIZE]
        ELSE 0]

\* PSID files whose header size lies within the file (a header size outside
\* the file gives offset 0, the case of the raw files), with and without the
\* load address in the data.
SampleSidFiles ==
    UNION { { SidFile(CharP, MIN_SID_HEADER_SIZE + extra, load_hi, 0, body) :
                extra \in 0 .. Len(body), load_hi \in {0, 16} } :
            body \in SeqsUpTo({1, 2}, 2) }

\* Sets of three signatures in which a name comes twice, side by side or
\* with another name in between.
SampleSignatureTriples ==
    LET a1 == SignatureConfig("A", <<BndmConfig_new(<<1, 2>>, Some(0))>>)     \* 01 02
        a2 == SignatureConfig("A", <<BndmConfig_new(<<2, 2>>, Some(0))>>)     \* 02 02
        b  == SignatureConfig("B", <<BndmConfig_new(<<1, 0, 2>>, Some(0))>>)  \* 01 ?? 02
    IN  { <<a1, b, a2>>, <<a1, a2, b>>, <<b, a1, a2>> }

InitScan ==
    /\ pc = "start"
    /\ ConfigIdle
    /\ filename \in SampleFileNames
    /\ data \in SeqsUpTo(SampleBytes, MaxDataLen) \cup SampleSidFiles
    /\ data_offset = 0
    /\ signatures \in UNION {[1 .. n -> SampleSignatures] : n \in 1 .. MaxSignatures}
                        \cup SampleSignatureTriples
    /\ scan_for_multiple \in BOOLEAN
    /\ matches = <<>>
    /\ source = <<>>
    /\ pattern = <<>>
    /\ wildcard = None
    /\ result = None

\* Signature::find_signatures(&data, data_offset, signature_ids, scan_for_multiple)
ScanFrom(offset) ==
    LET r == find_signatures(data, offset, signatures, scan_for_multiple)
    IN  /\ data_offset' = offset
        /\ matches' = r.matches
        /\ pc' = IF r.panicked THEN "panicked" ELSE "done"

\* PlayerId::find_players_in_file, the file read.
FindPlayersInFile ==
    /\ pc = "start"
    /\ ScanFrom(PlayerId_get_data_offset(filename, data))
    /\ UNCHANGED <<filename, data, signatures, scan_for_multiple>>
    /\ UNCHANGED bndmVars
    /\ UNCHANGED configVars

\* PlayerId::find_players_in_file, read_file failing: vec![].
FindPlayersInFileUnreadable ==
    /\ pc = "start"
    /\ matches' = <<>>
    /\ pc' = "unreadable"
    /\ UNCHANGED <<filename, data, data_offset, signatures, scan_for_multiple>>
    /\ UNCHANGED bndmVars
    /\ UNCHANGED configVars

NextScan ==
    \/ FindPlayersInFile
    \/ FindPlayersInFileUnreadable

SpecScan == InitScan /\ [][NextScan]_vars

---------------------------------------------------------------------------
(* The payload offset of every file of a header-shaped enumeration. *)

SampleMagics ==
    { <<CharP, CharS, CharI, CharD>>, <<CharR, CharS, CharI, CharD>>,
      <<CharS, CharS, CharI, CharD>>, <<CharP, CharS, CharI, CharP>>,
      <<CharP, 0, CharI, CharD>>, <<CharR, CharS, 0, CharD>> }

SampleHeaderSizes == {0, 117, 118, 119, 124, 126, 127, 128, 256, 374}

SampleFileLengths == {0, 1, 2, 3, 4, 117, 118, 119, 124, 126, 128}

SampleLoadAddresses == {<<0, 0>>, <<0, 1>>, <<16, 0>>, <<8, 1>>}

\* A file of n bytes whose first bytes are those of a SID header as far as
\* they fit: the magic at 0..3, header_size at 6..7, the load address at 8..9.
HeaderFile(n, magic, header_size, load) ==
    [i \in 1 .. n |->
        IF i <= 4 THEN magic[i]
        ELSE IF i = DATA_OFFSET_OFFSET + 1 THEN header_size \div 256
        ELSE IF i = DATA_OFFSET_OFFSET + 2 THEN header_size % 256
        ELSE IF i = LOAD_ADDRESS_OFFSET + 1 THEN load[1]
        ELSE IF i = LOAD_ADDRESS_OFFSET + 2 THEN load[2]
        ELSE 0]

OffsetFileNames ==
    SampleFileNames \cup { <<"p", "r", "g">>, <<"t", ".", "P", "R", "G">> }

InitOffset ==
    /\ pc = "start"
    /\ ConfigIdle
    /\ filename \in OffsetFileNames
    /\ \E n \in SampleFileLengths, magic \in SampleMagics,
          header_size \in SampleHeaderSizes, load \in SampleLoadAddresses :
          data = HeaderFile(n, magic, header_size, load)
    /\ data_offset = 0
    /\ signatures = <<>>
    /\ scan_for_multiple = FALSE
    /\ matches = <<>>
    /\ source = <<>>
    /\ pattern = <<>>
    /\ wildcard = None
    /\ result = None

\* PlayerId::get_data_offset
GetDataOffset ==
    /\ pc = "start"
    /\ data_offset' = PlayerId_get_data_offset(filename, data)
    /\ pc' = "offset"
    /\ UNCHANGED <<filename, data, signatures, scan_for_multiple, matches>>
    /\ UNCHANGED bndmVars
    /\ UNCHANGED configVars

NextOffset == GetDataOffset

SpecOffset == InitOffset /\ [][NextOffset]_vars

---------------------------------------------------------------------------
(* Reference semantics of a match, independent of the bit-parallel search. *)

\* The pattern lies at index i of src, a wildcard byte standing for any byte.
MatchesAt(src, pat, wc, i) ==
    /\ i >= 0
    /\ i + Len(pat) <= Len(src)
    /\ \A k \in 0 .. Len(pat) - 1 :
          \/ Idx(src, i + k) = Idx(pat, k)
          \/ (IsSome(wc) /\ Idx(pat, k) = wc.val)

Occurrences(src, pat, wc) ==
    {i \in 0 .. Len(src) - Len(pat) : MatchesAt(src, pat, wc, i)}

FirstOccurrence(src, pat, wc) ==
    LET occ == Occurrences(src, pat, wc)
    IN  IF occ = {} THEN None
        ELSE Some(CHOOSE i \in occ : \A k \in occ : i <= k)

---------------------------------------------------------------------------
(* Claims about the matcher, checked under SpecBndm. *)

\* C1: with no wildcard and a pattern of 1 .. W bytes, find_pattern returns
\* the smallest index at which the pattern occurs, and None exactly when it
\* does not occur (window skipping never jumps over an occurrence).
C1_NoWildcardFirstOccurrence ==
    (pc = "done" /\ wildcard = None
        /\ Len(pattern) >= 1 /\ Len(pattern) <= WORD_SIZE_IN_BITS)
    => result = FirstOccurrence(source, pattern, None)

\* A full-word pattern found only after the window has been moved.
C1_Witness ==
    /\ pc = "done" /\ wildcard = None
    /\ Len(pattern) = WORD_SIZE_IN_BITS
    /\ IsSome(result) /\ result.val >= 2

\* C2: with a wildcard byte and a pattern of 2 .. W bytes, find_pattern
\* returns the smallest index at which every pattern byte equals the source
\* byte or is the wildcard, and None when there is none.
C2_WildcardFirstOccurrence ==
    (pc = "done" /\ IsSome(wildcard)
        /\ Len(pattern) >= 2 /\ Len(pattern) <= WORD_SIZE_IN_BITS)
    => result = FirstOccurrence(source, pattern, wildcard)

\* A match past index 0 in which a wildcard position lies over a source byte
\* that is not the wildcard byte.
C2_Witness ==
    /\ pc = "done" /\ IsSome(wildcard)
    /\ Len(pattern) >= 2 /\ Len(pattern) <= WORD_SIZE_IN_BITS
    /\ IsSome(result) /\ result.val >= 1
    /\ \E k \in 0 .. Len(pattern) - 1 :
          /\ Idx(pattern, k) = wildcard.val
          /\ Idx(source, result.val + k) # wildcard.val

\* C3: for a pattern longer than the word, find_pattern returns what the
\* naive first-occurrence matcher with wildcard tolerance returns.
C3_LargePatternFirstOccurrence ==
    (pc = "done" /\ Len(pattern) > WORD_SIZE_IN_BITS
        /\ Len(pattern) <= Len(source))
    => result = FirstOccurrence(source, pattern, wildcard)

\* The first word of the pattern matches at window 0, the tail does not, and
\* a later occurrence is returned.
C3_Witness ==
    /\ pc = "done" /\ Len(pattern) > WORD_SIZE_IN_BITS
    /\ MatchesAt(source, SubSeq(pattern, 1, WORD_SIZE_IN_BITS), wildcard, 0)
    /\ IsSome(result) /\ result.val >= 1

\* C4: find_pattern returns None for an empty pattern and for a pattern
\* longer than the source.
C4_EmptyOrTooLongIsNone ==
    (pc = "done" /\ (Len(pattern) = 0 \/ Len(pattern) > Len(source)))
    => result = None

\* A pattern two or more bytes longer than a non-empty source.
C4_Witness ==
    /\ pc = "done" /\ Len(source) >= 1
    /\ Len(pattern) >= Len(source) + 2
    /\ result = None

\* C5: a one-byte pattern whose byte is the wildcard matches every non-empty
\* source at index 0.
C5_OneByteWildcardMatchesAtZero ==
    (pc = "done" /\ Len(pattern) = 1 /\ Len(source) >= 1
        /\ wildcard = Some(Idx(pattern, 0)))
    => result = Some(0)

---------------------------------------------------------------------------
(* Reference semantics of the scan (section 4.G), built on the reference    *)
(* match and not on the bit-parallel search.                                *)

\* The index at which config's pattern first occurs in payload.  A pattern
\* of two or more bytes occurs with wildcard tolerance; a one-byte pattern
\* occurs where its byte occurs.
PatternFirstOccurs(payload, config) ==
    IF Len(config.pattern) = 0 THEN None
    ELSE IF Len(config.pattern) = 1
         THEN FirstOccurrence(payload, config.pattern, None)
         ELSE FirstOccurrence(payload, config.pattern, config.wildcard)

RECURSIVE ReferenceOffsets(_, _, _, _)
\* The absolute offsets of configs[k..], each searched from the end of the
\* previous match, or None when one of them does not occur.
ReferenceOffsets(buf, cursor, configs, k) ==
    IF k > Len(configs) THEN Some(<<>>)
    ELSE LET r == PatternFirstOccurs(SliceFrom(buf, cursor), configs[k])
         IN  IF ~IsSome(r) THEN None
             ELSE LET rest == ReferenceOffsets(buf,
                                  cursor + r.val + Len(configs[k].pattern),
                                  configs, k + 1)
                  IN  IF IsSome(rest) THEN Some(<<cursor + r.val>> \o rest.val)
                      ELSE None

SignatureOccurs(s) ==
    IsSome(ReferenceOffsets(data, data_offset, signatures[s].bndm_configs, 1))

---------------------------------------------------------------------------
(* Claims about the file scan, checked under SpecScan. *)

\* C6: scanning never fails on a malformed file: the computed data_offset is
\* at most the buffer length and the scan returns a match list instead of
\* panicking.
C6_ScanNeverPanics ==
    (pc # "start") => (data_offset <= Len(data) /\ pc # "panicked")

\* C7: for a single-sub-pattern signature whose pattern first occurs at
\* payload-relative offset r of a payload starting at H, the scan reports
\* the absolute offset H + r, and nothing before H is matched.
C7_AbsoluteOffset ==
    (pc = "done" /\ Len(signatures) = 1
        /\ Len(signatures[1].bndm_configs) = 1)
    => LET config == signatures[1].bndm_configs[1]
           r == PatternFirstOccurs(SliceFrom(data, data_offset), config)
       IN  IF IsSome(r)
           THEN /\ matches = <<SignatureMatch(signatures[1].signature_name,
                                               <<data_offset + r.val>>)>>
                /\ MatchesAt(data, config.pattern, config.wildcard,
                             data_offset + r.val)
           ELSE matches = <<>>

\* A payload at offset 2 in which the pattern is found past its start, while
\* the pattern also lies in the two bytes before the payload.
C7_Witness ==
    /\ pc = "done" /\ data_offset = 2 /\ Len(signatures) = 1
    /\ Len(signatures[1].bndm_configs) = 1
    /\ Len(matches) = 1 /\ matches[1].indexes = <<3>>
    /\ \E i \in 0 .. 1 :
          MatchesAt(data, signatures[1].bndm_configs[1].pattern, None, i)

\* C8: with scan_for_multiple = false the scan returns exactly one record,
\* that of the first matching signature in set order, when a signature
\* matches, and the empty list when none does.
C8_FirstMatchOnly ==
    (pc = "done" /\ ~scan_for_multiple)
    => LET hits == {s \in 1 .. Len(signatures) : SignatureOccurs(s)}
       IN  IF hits = {} THEN matches = <<>>
           ELSE LET first == CHOOSE s \in hits : \A t \in hits : s <= t
                IN  matches =
                      <<SignatureMatch(signatures[first].signature_name,
                            ReferenceOffsets(data, data_offset,
                                signatures[first].bndm_configs, 1).val)>>

\* Two signatures of different names both match and only the first is
\* reported.
C8_Witness ==
    /\ pc = "done" /\ ~scan_for_multiple /\ Len(signatures) = 2
    /\ SignatureOccurs(1) /\ SignatureOccurs(2)
    /\ signatures[1].signature_name # signatures[2].signature_name
    /\ Len(matches) = 1

\* C9: every record holds one offset per sub-pattern of its signature, each
\* an occurrence of that sub-pattern at or after the payload start, and
\* consecutive offsets do not overlap: offset[k+1] >= offset[k] + len[k]; no
\* record is returned under a name none of whose signatures has all its
\* sub-patterns found in order.
C9_OffsetsDoNotOverlap ==
    (pc = "done")
    => \A m \in 1 .. Len(matches) :
          \E s \in 1 .. Len(signatures) :
             LET configs == signatures[s].bndm_configs
                 indexes == matches[m].indexes
             IN  /\ signatures[s].signature_name = matches[m].signature_name
                 /\ SignatureOccurs(s)
                 /\ Len(indexes) = Len(configs)
                 /\ \A k \in 1 .. Len(configs) :
                       /\ indexes[k] >= data_offset
                       /\ MatchesAt(data, configs[k].pattern,
                                    configs[k].wildcard, indexes[k])
                 /\ \A k \in 1 .. Len(configs) - 1 :
                       /\ indexes[k + 1] >= indexes[k] + Len(configs[k].pattern)
                       /\ indexes[k + 1] > indexes[k]

\* A record of two sub-patterns, the second found right behind the first.
C9_Witness ==
    /\ pc = "done" /\ Len(matches) >= 1
    /\ Len(matches[1].indexes) = 2
    /\ matches[1].indexes[2] = matches[1].indexes[1] + 1

---------------------------------------------------------------------------
(* Claims about the payload offset, checked under SpecOffset. *)

\* The payload offset as section 4.G states it.
ExpectedDataOffset ==
    LET sid == /\ Len(data) >= 118
               /\ SubSeq(data, 1, 4) \in {<<82, 83, 73, 68>>, <<80, 83, 73, 68>>}
        header_size == 256 * data[7] + data[8]
    IN  IF sid
        THEN IF header_size >= 118 /\ header_size <= Len(data)
             THEN header_size + (IF data[9] = 0 /\ data[10] = 0 THEN 2 ELSE 0)
             ELSE 0
        ELSE IF Len(filename) >= 4
                /\ SubSeq(filename, Len(filename) - 3, Len(filename))
                       = <<".", "p", "r", "g">>
             THEN 2
             ELSE 0

\* C10: the payload offset is header_size (+2 when the load address bytes
\* are zero) for an RSID/PSID file of at least 0x76 bytes whose header_size
\* is within [0x76, length], 0 for such a file with header_size outside that
\* range, otherwise 2 for a `.prg` name, otherwise 0.
C10_PayloadOffset ==
    (pc = "offset") => data_offset = ExpectedDataOffset

\* A PSID file named `.prg` with header_size 0x7C and a zero load address:
\* the SID rule wins and the offset is 0x7E.
C10_Witness ==
    /\ pc = "offset"
    /\ EndsWith(filename, PrgSuffix)
    /\ Len(data) >= MIN_SID_HEADER_SIZE
    /\ data[1] = CharP /\ 256 * data[7] + data[8] = 124
    /\ data[9] = 0 /\ data[10] = 0
    /\ data_offset = 126

---------------------------------------------------------------------------
(* Text.  A Rust string is a sequence of one-character strings; the files   *)
(* are Windows-1252 and the modelled texts are ASCII, so a string's byte    *)
(* length is its number of characters.                                      *)

LowerCaseLetters ==
    <<"a", "b", "c", "d", "e", "f", "g", "h", "i", "j", "k", "l", "m",
      "n", "o", "p", "q", "r", "s", "t", "u", "v", "w", "x", "y", "z">>

UpperCaseLetters ==
    <<"A", "B", "C", "D", "E", "F", "G", "H", "I", "J", "K", "L", "M",
      "N", "O", "P", "Q", "R", "S", "T", "U", "V", "W", "X", "Y", "Z">>

\* The upper-case letter of each lower-case letter.
UpperCaseOf ==
    [c \in {LowerCaseLetters[i] : i \in DOMAIN LowerCaseLetters} |->
        UpperCaseLetters[CHOOSE i \in DOMAIN LowerCaseLetters : LowerCaseLetters[i] = c]]

\* u8::to_ascii_uppercase
to_ascii_uppercase_char(c) ==
    IF c \in DOMAIN UpperCaseOf THEN UpperCaseOf[c] ELSE c

\* str::to_ascii_uppercase
to_ascii_uppercase(s) == [i \in 1 .. Len(s) |-> to_ascii_uppercase_char(s[i])]

\* str::eq_ignore_ascii_case
eq_ignore_ascii_case(a, b) == to_ascii_uppercase(a) = to_ascii_uppercase(b)

\* u8::is_ascii_whitespace: space, tab, line feed, form feed, carriage return
is_ascii_whitespace(c) == c \in {" ", "\t", "\n", "\f", "\r"}

SetMin(S) == CHOOSE x \in S : \A y \in S : x <= y

SetMax(S) == CHOOSE x \in S : \A y \in S : x >= y

\* str::trim: the text between its first and its last non-whitespace character
trim(s) ==
    LET kept == {i \in 1 .. Len(s) : ~is_ascii_whitespace(s[i])}
    IN  IF kept = {} THEN <<>> ELSE SubSeq(s, SetMin(kept), SetMax(kept))

\* str::ends_with
ends_with(s, suffix) ==
    /\ Len(s) >= Len(suffix)
    /\ SubSeq(s, Len(s) - Len(suffix) + 1, Len(s)) = suffix

\* str::starts_with
starts_with(s, prefix) ==
    /\ Len(s) >= Len(prefix)
    /\ SubSeq(s, 1, Len(prefix)) = prefix

\* str::contains
contains(s, needle) ==
    \E i \in 1 .. Len(s) - Len(needle) + 1 :
        SubSeq(s, i, i + Len(needle) - 1) = needle

\* substring::Substring::substring(start, end): the characters start..end,
\* cut at the end of the text
substring(s, start, end) == SubSeq(s, start + 1, Min(end, Len(s)))

\* str::split_ascii_whitespace: the maximal runs of non-whitespace
\* characters, in order.  The text is cut at the whitespace character
\* nearest to its middle, so that the evaluation nests logarithmically.
RECURSIVE split_ascii_whitespace(_)

split_ascii_whitespace(s) ==
    LET ws == {i \in 1 .. Len(s) : is_ascii_whitespace(s[i])}
    IN  IF ws = {}
        THEN IF s = <<>> THEN <<>> ELSE <<s>>
        ELSE LET mid == (Len(s) + 1) \div 2
                 dist(i) == IF i < mid THEN mid - i ELSE i - mid
                 m == CHOOSE i \in ws : \A j \in ws :
                          dist(i) < dist(j) \/ (dist(i) = dist(j) /\ i <= j)
             IN  split_ascii_whitespace(SubSeq(s, 1, m - 1))
                     \o split_ascii_whitespace(SubSeq(s, m + 1, Len(s)))

\* [String]::join(sep), halving the list for the same reason
RECURSIVE join(_, _)

join(strings, sep) ==
    IF Len(strings) = 0 THEN <<>>
    ELSE IF Len(strings) = 1 THEN strings[1]
    ELSE LET h == Len(strings) \div 2
         IN  join(SubSeq(strings, 1, h), sep) \o sep
                 \o join(SubSeq(strings, h + 1, Len(strings)), sep)

HexDigits ==
    <<"0", "1", "2", "3", "4", "5", "6", "7",
      "8", "9", "A", "B", "C", "D", "E", "F">>

\* The value of each hex digit.
HexDigitValue ==
    [c \in {HexDigits[i] : i \in DOMAIN HexDigits} |->
        (CHOOSE i \in DOMAIN HexDigits : HexDigits[i] = c) - 1]

\* char::to_digit(16): the digit's value, -1 for any other character
to_digit_16(c) ==
    LET u == to_ascii_uppercase_char(c)
    IN  IF u \in DOMAIN HexDigitValue THEN HexDigitValue[u] ELSE -1

\* format!("{:02X}", b)
format_02X(b) == <<HexDigits[(b \div 16) + 1], HexDigits[(b % 16) + 1]>>

RECURSIVE DigitsValue(_, _, _)
DigitsValue(digits, k, acc) ==
    IF k > Len(digits) THEN acc
    ELSE DigitsValue(digits, k + 1, acc * 16 + to_digit_16(digits[k]))

\* u16::from_str_radix(s, 16): an optional `+`, then one or more hex digits;
\* Err (None here) for anything else or for a value above 0xFFFF
u16_from_str_radix_16(s) ==
    LET digits == IF Len(s) > 0 /\ s[1] = "+" THEN Tail(s) ELSE s
    IN  IF digits = <<>> \/ \E i \in 1 .. Len(digits) : to_digit_16(digits[i]) < 0
        THEN None
        ELSE IF DigitsValue(digits, 1, 0) > 65535 THEN None
        ELSE Some(DigitsValue(digits, 1, 0))

---------------------------------------------------------------------------
(* player_id/signature.rs: calculate_wildcard, add_signature and            *)
(* process_signature_value.                                                 *)

CMD_WILDCARD == 256

SIGNATURE_MAX_VALUE == 256

\* calculate_wildcard returns (wildcard_used, calculated_wildcard).
WildcardResult(used, calculated) == [wildcard_used |-> used, calculated_wildcard |-> calculated]

\* The locals of calculate_wildcard on entry.  bytes_used is the set of the
\* indexes of the array that are true; index counts the values consumed.
calculate_wildcard_entry ==
    [bytes_used |-> {}, wildcard |-> 0, index |-> 0,
     returned |-> FALSE, value |-> WildcardResult(FALSE, None)]

\* while wildcard < SIGNATURE_MAX_VALUE && bytes_used[wildcard] { wildcard += 1 }:
\* the loop stops at the first value from w on that is SIGNATURE_MAX_VALUE
\* or is not marked.
advance_wildcard(bytes_used, w) ==
    SetMin({x \in w .. SIGNATURE_MAX_VALUE :
               ~(x < SIGNATURE_MAX_VALUE /\ x \in bytes_used)})

\* A variant that looks for a free byte only once, at the first value.
calculate_wildcard_iteration_first_only(st, value) ==
    LET used == st.bytes_used \cup {value}
    IN  IF st.wildcard = value /\ st.index = 0
        THEN [st EXCEPT !.bytes_used = used,
                        !.wildcard = advance_wildcard(used, st.wildcard),
                        !.index = st.index + 1]
        ELSE [st EXCEPT !.bytes_used = used, !.index = st.index + 1]

\* One iteration of `for value in signature`.
calculate_wildcard_iteration(st, value) ==
    LET used == st.bytes_used \cup {value}
    IN  IF st.wildcard = value
        THEN LET w == advance_wildcard(used, st.wildcard)
             IN  IF w = SIGNATURE_MAX_VALUE
                 THEN [st EXCEPT !.bytes_used = used, !.wildcard = w,
                                 !.index = st.index + 1, !.returned = TRUE,
                                 !.value = WildcardResult(TRUE, None)]
                 ELSE [st EXCEPT !.bytes_used = used, !.wildcard = w,
                                 !.index = st.index + 1]
        ELSE [st EXCEPT !.bytes_used = used, !.index = st.index + 1]

\* The return after the loop: (bytes_used[CMD_WILDCARD], Some(wildcard as u8)).
calculate_wildcard_return(st) ==
    IF st.returned THEN st.value
    ELSE WildcardResult(CMD_WILDCARD \in st.bytes_used, Some(st.wildcard % 256))

RECURSIVE calculate_wildcard_loop(_, _)
calculate_wildcard_loop(values, st) ==
    IF st.returned \/ st.index >= Len(values) THEN calculate_wildcard_return(st)
    ELSE calculate_wildcard_loop(values, calculate_wildcard_iteration(st, Idx(values, st.index)))

calculate_wildcard(values) == calculate_wildcard_loop(values, calculate_wildcard_entry)

\* add_signature's new_signature: the values below 0x100 as bytes, each
\* CMD_WILDCARD as calculated_wildcard.unwrap().  The unwrap cannot fail:
\* the caller's guard excludes (true, None), the only None returned.
new_signature(values, calculated) ==
    LET kept == SelectSeq(values, LAMBDA v : v < 256 \/ v = CMD_WILDCARD)
    IN  [i \in 1 .. Len(kept) |-> IF kept[i] < 256 THEN kept[i] ELSE calculated.val]

\* A variant that keeps a sub-pattern whose wildcard could not be chosen.
add_signature_after_keeps_all(values, calc, configs) ==
    Append(configs,
           [pattern |-> new_signature(values, calc.calculated_wildcard),
            wildcard |-> calc.calculated_wildcard])

\* add_signature once calculate_wildcard has returned calc.
add_signature_after(values, calc, configs) ==
    IF ~calc.wildcard_used \/ IsSome(calc.calculated_wildcard)
    THEN Append(configs,
                BndmConfig_new(new_signature(values, calc.calculated_wildcard),
                               calc.calculated_wildcard))
    ELSE configs

add_signature(values, configs) ==
    add_signature_after(values, calculate_wildcard(values), configs)

\* convert_hex_to_bin: u16::from_str_radix(digit_string, 16).unwrap_or(0)
convert_hex_to_bin(digit_string) ==
    LET parsed == u16_from_str_radix_16(digit_string)
    IN  IF IsSome(parsed) THEN parsed.val ELSE 0

WordQuestion == <<"?", "?">>

WordAND == <<"A", "N", "D">>

WordAmp == <<"&", "&">>

WordEND == <<"E", "N", "D">>

\* The arm of process_signature_value's match that a word takes.
word_arm(word) ==
    IF Len(word) < 2 THEN "skip"
    ELSE IF word = WordQuestion THEN "wildcard"
    ELSE IF word \in {WordAND, WordAmp, WordEND} THEN "separator"
    ELSE "byte"

\* A variant that splits the text as written, without upper-casing it.
signature_words_as_written(text) == split_ascii_whitespace(text)

\* The words process_signature_value iterates over.
signature_words(text) == split_ascii_whitespace(to_ascii_uppercase(text))

RECURSIVE process_words(_, _, _, _)
process_words(ws, k, values, configs) ==
    IF k > Len(ws)
    THEN IF values # <<>> THEN add_signature(values, configs) ELSE configs
    ELSE LET arm == word_arm(ws[k])
         IN  IF arm = "skip" THEN process_words(ws, k + 1, values, configs)
             ELSE IF arm = "wildcard"
             THEN process_words(ws, k + 1, Append(values, CMD_WILDCARD), configs)
             ELSE IF arm = "separator"
             THEN process_words(ws, k + 1, <<>>, add_signature(values, configs))
             ELSE process_words(ws, k + 1,
                      Append(values, convert_hex_to_bin(substring(ws[k], 0, 2))), configs)

process_signature_value(name, text) ==
    SignatureConfig(name, process_words(signature_words(text), 1, <<>>, <<>>))

---------------------------------------------------------------------------
(* process_signature_value, statement by statement, on every bounded value  *)
(* text and on texts whose sub-patterns use every byte value.               *)

\* The longest enumerated value text, in words.
MaxWords == 4

SampleWords ==
    { <<"0", "0">>, <<"0", "1">>, <<"?", "?">>, <<"A", "N", "D">>,
      <<"&", "&">>, <<"e", "n", "d">>, <<"7">> }

\* The text of a token: `??` for CMD_WILDCARD, two hex digits for a byte.
TokenWord(v) == IF v = CMD_WILDCARD THEN WordQuestion ELSE format_02X(v)

TokenWords(values) == [i \in 1 .. Len(values) |-> TokenWord(values[i])]

AllBytesAscending == [i \in 1 .. 256 |-> i - 1]

AllBytesDescending == [i \in 1 .. 256 |-> 256 - i]

Without(values, b) == SelectSeq(values, LAMBDA v : v # b)

\* Sub-patterns that use all, or all but one, of the 256 byte values.
LongValueSequences ==
    { AllBytesAscending,
      AllBytesDescending,
      AllBytesAscending \o <<CMD_WILDCARD>>,
      <<CMD_WILDCARD>> \o AllBytesDescending,
      SubSeq(AllBytesAscending, 1, 128) \o <<CMD_WILDCARD>>
          \o SubSeq(AllBytesAscending, 129, 256),
      <<CMD_WILDCARD>> \o Without(AllBytesAscending, 128),
      Without(AllBytesDescending, 255) \o <<CMD_WILDCARD>>,
      Without(AllBytesDescending, 0) }

LongWordLists ==
    { TokenWords(v) : v \in LongValueSequences }
    \cup { <<format_02X(32), format_02X(48), WordAND>> \o TokenWords(v)
               \o <<WordAmp, format_02X(64), WordQuestion, format_02X(80)>> :
           v \in { AllBytesAscending \o <<CMD_WILDCARD>>,
                   <<CMD_WILDCARD>> \o AllBytesDescending,
                   AllBytesDescending } }

Blank == <<" ">>

InitValue ==
    /\ pc = "value"
    /\ \E ws \in SeqsUpTo(SampleWords, MaxWords) \cup LongWordLists :
           signature_text = join(ws, Blank)
    /\ words = <<>>
    /\ word_index = 0
    /\ signature_values = <<>>
    /\ bndm_configs = <<>>
    /\ cw = <<>>
    /\ ParseIdle
    /\ ConvertIdle
    /\ VerifyIdle
    /\ RunIdle
    /\ RestIdle
    /\ BndmIdle
    /\ ScanIdle

\* let mut signature = vec![]; let mut bndm_configs = vec![];
\* signature_text.to_ascii_uppercase().split_ascii_whitespace()
ProcessSignatureValue ==
    /\ pc = "value"
    /\ words' = signature_words(signature_text)
    /\ word_index' = 0
    /\ signature_values' = <<>>
    /\ bndm_configs' = <<>>
    /\ pc' = "words"
    /\ UNCHANGED <<signature_text, cw>>
    /\ UNCHANGED <<restVars, verifyVars, runVars, bndmVars, scanVars, parseVars, convertVars>>

\* The word the loop is at.
CurrentWord == Idx(words, word_index)

AtWord(arm) ==
    /\ pc = "words"
    /\ word_index < Len(words)
    /\ word_arm(CurrentWord) = arm

\* if word.len() >= 2 { ... }: a shorter word is passed over
SkipWord ==
    /\ AtWord("skip")
    /\ word_index' = word_index + 1
    /\ UNCHANGED <<pc, signature_text, words, signature_values, bndm_configs, cw>>
    /\ UNCHANGED <<restVars, verifyVars, runVars, bndmVars, scanVars, parseVars, convertVars>>

\* "??" => signature.push(CMD_WILDCARD)
PushWildcard ==
    /\ AtWord("wildcard")
    /\ signature_values' = Append(signature_values, CMD_WILDCARD)
    /\ word_index' = word_index + 1
    /\ UNCHANGED <<pc, signature_text, words, bndm_configs, cw>>
    /\ UNCHANGED <<restVars, verifyVars, runVars, bndmVars, scanVars, parseVars, convertVars>>

\* _ => signature.push(convert_hex_to_bin(word.substring(0, 2)))
PushByte ==
    /\ AtWord("byte")
    /\ signature_values' =
           Append(signature_values, convert_hex_to_bin(substring(CurrentWord, 0, 2)))
    /\ word_index' = word_index + 1
    /\ UNCHANGED <<pc, signature_text, words, bndm_configs, cw>>
    /\ UNCHANGED <<restVars, verifyVars, runVars, bndmVars, scanVars, parseVars, convertVars>>

\* "AND" | "&&" | "END" => add_signature(&signature, &mut bndm_configs): the call
SeparatorWord ==
    /\ AtWord("separator")
    /\ cw' = calculate_wildcard_entry
    /\ word_index' = word_index + 1
    /\ pc' = "add_in_loop"
    /\ UNCHANGED <<signature_text, words, signature_values, bndm_configs>>
    /\ UNCHANGED <<restVars, verifyVars, runVars, bndmVars, scanVars, parseVars, convertVars>>

\* if !signature.is_empty() { add_signature(...) } after the loop: the call
EndOfWordsAdd ==
    /\ pc = "words"
    /\ word_index = Len(words)
    /\ signature_values # <<>>
    /\ cw' = calculate_wildcard_entry
    /\ pc' = "add_at_end"
    /\ UNCHANGED <<signature_text, words, word_index, signature_values, bndm_configs>>
    /\ UNCHANGED <<restVars, verifyVars, runVars, bndmVars, scanVars, parseVars, convertVars>>

\* The loop ends with nothing collected: the SignatureConfig is returned.
EndOfWordsReturn ==
    /\ pc = "words"
    /\ word_index = Len(words)
    /\ signature_values = <<>>
    /\ pc' = "returned"
    /\ UNCHANGED <<signature_text, words, word_index, signature_values, bndm_configs, cw>>
    /\ UNCHANGED <<restVars, verifyVars, runVars, bndmVars, scanVars, parseVars, convertVars>>

InAddSignature == pc \in {"add_in_loop", "add_at_end"}

CalculateWildcardDone == cw.returned \/ cw.index >= Len(signature_values)

\* calculate_wildcard: one iteration of its loop
CalculateWildcardIteration ==
    /\ InAddSignature
    /\ ~CalculateWildcardDone
    /\ cw' = calculate_wildcard_iteration(cw, Idx(signature_values, cw.index))
    /\ UNCHANGED <<pc, signature_text, words, word_index, signature_values, bndm_configs>>
    /\ UNCHANGED <<restVars, verifyVars, runVars, bndmVars, scanVars, parseVars, convertVars>>

\* calculate_wildcard returns and add_signature pushes the sub-pattern or not
AddSignature ==
    /\ InAddSignature
    /\ CalculateWildcardDone
    /\ bndm_configs' =
           add_signature_after(signature_values, calculate_wildcard_return(cw), bndm_configs)
    /\ pc' = IF pc = "add_in_loop" THEN "added_in_loop" ELSE "added_at_end"
    /\ UNCHANGED <<signature_text, words, word_index, signature_values, cw>>
    /\ UNCHANGED <<restVars, verifyVars, runVars, bndmVars, scanVars, parseVars, convertVars>>

\* signature.clear() after the add_signature of a separator
ClearSignature ==
    /\ pc = "added_in_loop"
    /\ signature_values' = <<>>
    /\ cw' = <<>>
    /\ pc' = "words"
    /\ UNCHANGED <<signature_text, words, word_index, bndm_configs>>
    /\ UNCHANGED <<restVars, verifyVars, runVars, bndmVars, scanVars, parseVars, convertVars>>

\* SignatureConfig { signature_name, bndm_configs } after the last add_signature
ReturnSignature ==
    /\ pc = "added_at_end"
    /\ pc' = "returned"
    /\ UNCHANGED <<signature_text, words, word_index, signature_values, bndm_configs, cw>>
    /\ UNCHANGED <<restVars, verifyVars, runVars, bndmVars, scanVars, parseVars, convertVars>>

NextValue ==
    \/ ProcessSignatureValue
    \/ SkipWord
    \/ PushWildcard
    \/ PushByte
    \/ SeparatorWord
    \/ EndOfWordsAdd
    \/ EndOfWordsReturn
    \/ CalculateWildcardIteration
    \/ AddSignature
    \/ ClearSignature
    \/ ReturnSignature

SpecValue == InitValue /\ [][NextValue]_vars

---------------------------------------------------------------------------
(* player_id/signature.rs: Signature::read_config_file.                     *)

\* is_signature_min_length
is_signature_min_length(text) == Len(text) >= 2

\* is_signature_name: at least three characters, the third no space, and a
\* text of exactly three characters is neither END nor AND in any case
is_signature_name(text) ==
    /\ Len(text) >= 3
    /\ text[3] # " "
    /\ \/ Len(text) > 3
       \/ to_ascii_uppercase(substring(text, 0, 3)) \notin {WordEND, WordAND}

\* signature_text.ends_with_ignore_ascii_case_with_uppercase("END")
has_end_marker(text) == ends_with(to_ascii_uppercase(text), WordEND)

\* The lines of is_config_file: the first line that is not blank must be a
\* name line and the line after it a value line.
is_config_file(lines) ==
    LET filled == {i \in 1 .. Len(lines) : trim(lines[i]) # <<>>}
    IN  /\ filled # {}
        /\ LET i == SetMin(filled)
           IN  /\ is_signature_min_length(lines[i])
               /\ is_signature_name(lines[i])
               /\ i < Len(lines)
               /\ is_signature_min_length(lines[i + 1])
               /\ ~is_signature_name(lines[i + 1])

\* A variant that compares the filter with the name byte for byte.
process_signature_line_case_sensitive(name_to_filter, sigs, name, text) ==
    IF ~IsSome(name_to_filter) \/ name_to_filter.val = name
    THEN Append(sigs, process_signature_value(name, text))
    ELSE sigs

\* process_signature_line
process_signature_line(name_to_filter, sigs, name, text) ==
    IF ~IsSome(name_to_filter) \/ eq_ignore_ascii_case(name_to_filter.val, name)
    THEN Append(sigs, process_signature_value(name, text))
    ELSE sigs

RECURSIVE process_lines(_, _, _, _, _)
process_lines(name_to_filter, sigs, name, lines, k) ==
    IF k > Len(lines) THEN sigs
    ELSE process_lines(name_to_filter,
                       process_signature_line(name_to_filter, sigs, name, lines[k]),
                       name, lines, k + 1)

\* The reader's state: the signatures so far, the current name and the
\* value lines not yet processed.
ReaderState(sigs, name, lines) ==
    [signatures |-> sigs, signature_name |-> name, signature_lines |-> lines]

\* process_multi_signatures: every pending line is a signature of its own
process_multi_signatures(name_to_filter, st) ==
    ReaderState(process_lines(name_to_filter, st.signatures, st.signature_name,
                              st.signature_lines, 1),
                st.signature_name, <<>>)

\* A variant that leaves the pending lines in the buffer.
process_single_signature_keeps_lines(name_to_filter, st) ==
    ReaderState(process_signature_line(name_to_filter, st.signatures, st.signature_name,
                                       join(st.signature_lines, Blank)),
                st.signature_name, st.signature_lines)

\* A variant that joins the pending lines without a blank between them.
process_single_signature_joins_without_blank(name_to_filter, st) ==
    ReaderState(process_signature_line(name_to_filter, st.signatures, st.signature_name,
                                       join(st.signature_lines, <<>>)),
                st.signature_name, <<>>)

\* process_single_signature: the pending lines joined are one signature
process_single_signature(name_to_filter, st) ==
    ReaderState(process_signature_line(name_to_filter, st.signatures, st.signature_name,
                                       join(st.signature_lines, Blank)),
                st.signature_name, <<>>)

\* The kind of a line, as the loop of read_config_file tests it.
line_kind(line) ==
    LET text == trim(line)
    IN  IF ~is_signature_min_length(text) THEN "short"
        ELSE IF is_signature_name(text) THEN "name"
        ELSE IF has_end_marker(text) THEN "value_end"
        ELSE "value"

\* The body of `for line in lines.flatten()`.
read_config_line(name_to_filter, st, line) ==
    LET text == trim(line)
        kind == line_kind(line)
    IN  IF kind = "name"
        THEN [process_multi_signatures(name_to_filter, st) EXCEPT !.signature_name = text]
        ELSE IF kind = "value"
        THEN [st EXCEPT !.signature_lines = Append(@, text)]
        ELSE IF kind = "value_end"
        THEN process_single_signature(name_to_filter,
                                      [st EXCEPT !.signature_lines = Append(@, text)])
        ELSE [process_multi_signatures(name_to_filter, st) EXCEPT !.signature_name = <<>>]

RECURSIVE read_config_lines_from(_, _, _, _)
read_config_lines_from(name_to_filter, st, lines, k) ==
    IF k > Len(lines) THEN process_multi_signatures(name_to_filter, st).signatures
    ELSE read_config_lines_from(name_to_filter,
                                read_config_line(name_to_filter, st, lines[k]),
                                lines, k + 1)

\* The loop of read_config_file and the flush after it.
read_config_lines(lines, name_to_filter) ==
    read_config_lines_from(name_to_filter, ReaderState(<<>>, <<>>, <<>>), lines, 1)

\* read_config_file: Err("Not a config file.") is None here.
read_config_file(lines, name_to_filter) ==
    IF ~is_config_file(lines) THEN None
    ELSE Some(read_config_lines(lines, name_to_filter))

---------------------------------------------------------------------------
(* read_config_file, line by line, on every bounded config text.            *)

\* The longest enumerated config file, in lines.
MaxLines == 4

NamePlayerX == <<"P", "l", "a", "y", "e", "r", "X">>

NameAbc == <<"A", "b", "c">>

W20 == <<"2", "0">>

W30 == <<"3", "0">>

W40 == <<"4", "0">>

W50 == <<"5", "0">>

\* 20 30 AND 40 50 END
LineAndEnd == join(<<W20, W30, WordAND, W40, W50, WordEND>>, Blank)

\* 20 30 && 40 50, with a trailing blank
LineAmp == join(<<W20, W30, WordAmp, W40, W50>>, Blank) \o Blank

\* a9 ?? 8d and 0e 0f end
LineLowerCase ==
    join(<<<<"a", "9">>, WordQuestion, <<"8", "d">>, <<"a", "n", "d">>,
           <<"0", "e">>, <<"0", "f">>, <<"e", "n", "d">>>>, Blank)

\* 20 30
LinePlain == join(<<W20, W30>>, Blank)

SampleLines ==
    { NamePlayerX, NameAbc, LineAndEnd, LineAmp, LineLowerCase, LinePlain,
      <<>>, WordEND }

SampleFilters == { None, Some(to_ascii_uppercase(NamePlayerX)) }

InitParse ==
    /\ pc = "load"
    /\ config_lines \in SeqsUpTo(SampleLines, MaxLines)
    /\ signature_name_to_filter \in SampleFilters
    /\ line_index = 0
    /\ signature_name = <<>>
    /\ signature_lines = <<>>
    /\ ConvertIdle
    /\ ValueIdle
    /\ VerifyIdle
    /\ RunIdle
    /\ RestIdle
    /\ BndmIdle
    /\ ScanIdle

scanRest == <<filename, data, data_offset, scan_for_multiple, matches>>

\* if !Self::is_config_file(file_path) { return Err("Not a config file.") }
ReadConfigFileNotConfig ==
    /\ pc = "load"
    /\ ~is_config_file(config_lines)
    /\ pc' = "not_config"
    /\ UNCHANGED <<signatures, parseVars, convertVars>>
    /\ UNCHANGED <<restVars, verifyVars, runVars, bndmVars, scanRest, valueVars>>

\* let mut signatures = vec![]; let mut signature_name = ""; let mut signature_lines = vec![]
ReadConfigFileOpen ==
    /\ pc = "load"
    /\ is_config_file(config_lines)
    /\ signatures' = <<>>
    /\ signature_name' = <<>>
    /\ signature_lines' = <<>>
    /\ line_index' = 0
    /\ pc' = "lines"
    /\ UNCHANGED <<config_lines, signature_name_to_filter, convertVars>>
    /\ UNCHANGED <<restVars, verifyVars, runVars, bndmVars, scanRest, valueVars>>

\* One iteration of the loop over the lines, for a line of the given kind.
ReadLine(kind) ==
    /\ pc = "lines"
    /\ line_index < Len(config_lines)
    /\ line_kind(Idx(config_lines, line_index)) = kind
    /\ LET st == read_config_line(signature_name_to_filter,
                                  ReaderState(signatures, signature_name, signature_lines),
                                  Idx(config_lines, line_index))
       IN  /\ signatures' = st.signatures
           /\ signature_name' = st.signature_name
           /\ signature_lines' = st.signature_lines
    /\ line_index' = line_index + 1
    /\ UNCHANGED <<pc, config_lines, signature_name_to_filter, convertVars>>
    /\ UNCHANGED <<restVars, verifyVars, runVars, bndmVars, scanRest, valueVars>>

\* A name line: the pending lines are flushed and the name is set.
ReadNameLine == ReadLine("name")

\* A value line without END: it is appended to the pending lines.
ReadValueLine == ReadLine("value")

\* A value line ending in END: the pending lines joined are one signature.
ReadValueLineWithEnd == ReadLine("value_end")

\* A line shorter than two characters: flush, and the name is cleared.
ReadShortLine == ReadLine("short")

\* The flush after the last line; Ok(signatures).
ReadEndOfFile ==
    /\ pc = "lines"
    /\ line_index = Len(config_lines)
    /\ LET st == process_multi_signatures(signature_name_to_filter,
                     ReaderState(signatures, signature_name, signature_lines))
       IN  /\ signatures' = st.signatures
           /\ signature_lines' = st.signature_lines
    /\ pc' = "loaded"
    /\ UNCHANGED <<config_lines, signature_name_to_filter, line_index, signature_name,
                   convertVars>>
    /\ UNCHANGED <<restVars, verifyVars, runVars, bndmVars, scanRest, valueVars>>

NextParse ==
    \/ ReadConfigFileNotConfig
    \/ ReadConfigFileOpen
    \/ ReadNameLine
    \/ ReadValueLine
    \/ ReadValueLineWithEnd
    \/ ReadShortLine
    \/ ReadEndOfFile

SpecParse == InitParse /\ [][NextParse]_vars

---------------------------------------------------------------------------
(* player_id/validate.rs: verify_config_file.                               *)

\* str::replace(pat, ""): the characters outside every occurrence of pat.
\* (The occurrences of " END" cannot overlap.)
str_remove(s, pat) ==
    LET starts == {i \in 1 .. Len(s) - Len(pat) + 1 : SubSeq(s, i, i + Len(pat) - 1) = pat}
        covered(j) == \E i \in starts : i <= j /\ j < i + Len(pat)
        kept == SelectSeq([j \in 1 .. Len(s) |-> j], LAMBDA j : ~covered(j))
    IN  [k \in 1 .. Len(kept) |-> s[kept[k]]]

\* str::split(pat): the pieces between the occurrences of pat, found from
\* left to right without overlap
RECURSIVE str_split(_, _)
str_split(s, pat) ==
    LET starts == {i \in 1 .. Len(s) - Len(pat) + 1 : SubSeq(s, i, i + Len(pat) - 1) = pat}
    IN  IF starts = {} THEN <<s>>
        ELSE <<SubSeq(s, 1, SetMin(starts) - 1)>>
                 \o str_split(SubSeq(s, SetMin(starts) + Len(pat), Len(s)), pat)

\* u8::is_ascii_hexdigit
is_ascii_hexdigit(c) == to_digit_16(c) >= 0

\* The word limit of validate_signature_range: the word at this index is
\* reported.
RANGE_INDEX_LIMIT == 255

\* validate_signature_range: what the loop does for the word at `index`
\* (0-based) of ws; TRUE when it sets error.
word_issue(ws, index) ==
    LET word == Idx(ws, index)
        has_next == index + 1 < Len(ws)
    IN  \/ index = RANGE_INDEX_LIMIT
        \/ /\ word = WordQuestion
           /\ \/ index = 0
              \/ ~has_next
              \/ eq_ignore_ascii_case(Idx(ws, index + 1), WordEND)
        \/ /\ word = WordEND
           /\ has_next
        \/ /\ word \in {WordAND, WordAmp}
           /\ index = 0
        \/ /\ word \notin {WordQuestion, WordEND, WordAND, WordAmp}
           /\ \/ \E i \in DOMAIN word : ~is_ascii_hexdigit(word[i])
              \/ (word # <<>> /\ Len(word) # 2)

\* validate_signature_range: error is the disjunction of the loop's reports
validate_signature_range(text) ==
    LET ws == split_ascii_whitespace(text)
    IN  \E index \in 0 .. Len(ws) - 1 : word_issue(ws, index)

TextEnd == <<" ", "E", "N", "D">>

TextAnd == <<" ", "A", "N", "D">>

TextAmp == <<" ", "&", "&">>

\* validate_signature_value
validate_signature_value(text) ==
    LET upper == to_ascii_uppercase(text)
        without_end == str_remove(text, TextEnd)
        pieces == str_split(upper, TextAnd \o Blank)
    IN  \/ text # upper
        \/ Len(without_end) <= 4
        \/ ends_with(without_end, TextAnd)
        \/ ends_with(without_end, TextAmp)
        \/ \E i \in DOMAIN pieces :
               LET parts == str_split(pieces[i], TextAmp \o Blank)
               IN  \E j \in DOMAIN parts : validate_signature_range(parts[j])

\* validate_signature_value_lines
validate_signature_value_lines(lines) ==
    \E i \in DOMAIN lines : validate_signature_value(lines[i])

\* HashMap::insert
map_insert(m, key, value) ==
    [k \in DOMAIN m \cup {key} |-> IF k = key THEN value ELSE m[k]]

\* validate_signature_without_value (the unwrap cannot fail: every name
\* that is set has been inserted)
validate_signature_without_value(names_added, name) ==
    /\ name # <<>>
    /\ to_ascii_uppercase(name) \in DOMAIN names_added
    /\ ~names_added[to_ascii_uppercase(name)]

\* validate_signature_name
validate_signature_name(name, names_added) ==
    \/ contains(name, Blank)
    \/ to_ascii_uppercase(name) \in DOMAIN names_added

\* validate_spaces
validate_spaces(value, line_length, signature_size) ==
    \/ line_length # signature_size
    \/ contains(value, <<" ", " ">>)

\* The validator's locals.
verify_entry ==
    [error |-> FALSE, signature_names_added |-> <<>>, line_number |-> 1,
     last_empty_line_number |-> -1, signature_name |-> <<>>, signature_lines |-> <<>>]

\* verify_config_file: a line that is a signature name
verify_name_line(st, line, text) ==
    LET e1 == \/ st.error
              \/ validate_signature_without_value(st.signature_names_added, st.signature_name)
              \/ validate_signature_value_lines(st.signature_lines)
              \/ validate_signature_name(text, st.signature_names_added)
    IN  [st EXCEPT !.error = e1 \/ validate_spaces(text, Len(line), Len(text)),
                   !.signature_lines = <<>>,
                   !.signature_name = text,
                   !.signature_names_added = map_insert(@, to_ascii_uppercase(text), FALSE)]

\* verify_config_file: a value line
verify_value_line(st, line, text) ==
    LET pending == Append(st.signature_lines, text)
        ended == has_end_marker(text)
        e1 == \/ st.error
              \/ st.signature_name = <<>>
              \/ (ended /\ validate_signature_value(join(pending, Blank)))
    IN  [st EXCEPT !.error = e1 \/ validate_spaces(text, Len(line), Len(text)),
                   !.signature_lines = IF ended THEN <<>> ELSE pending,
                   !.signature_names_added =
                       map_insert(@, to_ascii_uppercase(st.signature_name), TRUE)]

\* verify_config_file: a line of fewer than two characters
verify_short_line(st, line, text) ==
    LET e1 == \/ st.error
              \/ (text = <<>> /\ line # <<>>)
              \/ validate_signature_without_value(st.signature_names_added, st.signature_name)
              \/ validate_signature_value_lines(st.signature_lines)
              \/ text # <<>>
              \/ (line = <<>> /\ st.last_empty_line_number = st.line_number - 1)
        key == to_ascii_uppercase(st.signature_name)
    IN  [st EXCEPT !.error = e1,
                   !.signature_lines = <<>>,
                   !.signature_names_added =
                       IF text # <<>> \/ e1 THEN map_insert(@, key, TRUE) ELSE @,
                   !.signature_name = IF e1 THEN @ ELSE <<>>,
                   !.last_empty_line_number = st.line_number]

\* The body of `for line in config_lines`.
verify_line(st, line) ==
    LET text == trim(line)
        next == IF ~is_signature_min_length(text) THEN verify_short_line(st, line, text)
                ELSE IF is_signature_name(text) THEN verify_name_line(st, line, text)
                ELSE verify_value_line(st, line, text)
    IN  [next EXCEPT !.line_number = @ + 1]

RECURSIVE verify_lines_from(_, _, _)
verify_lines_from(st, lines, k) ==
    IF k > Len(lines)
    THEN \/ st.error
         \/ validate_signature_without_value(st.signature_names_added, st.signature_name)
         \/ validate_signature_value_lines(st.signature_lines)
    ELSE verify_lines_from(verify_line(st, lines[k]), lines, k + 1)

\* verify_config_file: TRUE when issues were found
verify_config_file(lines) == verify_lines_from(verify_entry, lines, 1)

---------------------------------------------------------------------------
(* player_id.rs: convert_file_format and convert_ids_to_string.             *)

CRLF == <<"\r", "\n">>

\* A variant that takes the byte 0x00 for the wildcard of every sub-pattern.
render_byte_zero_is_wildcard(b, wc) ==
    IF b = 0 THEN WordQuestion ELSE format_02X(b)

\* The closure of convert_ids_to_string: `??` for the wildcard byte, two
\* upper-case hex digits for any other.
render_byte(b, wc) ==
    IF IsSome(wc) /\ b = wc.val THEN WordQuestion ELSE format_02X(b)

\* The bytes of one sub-pattern, joined with blanks.
render_pattern(config) ==
    join([i \in 1 .. Len(config.pattern) |-> render_byte(config.pattern[i], config.wildcard)],
         Blank)

RECURSIVE render_configs(_, _, _, _)
render_configs(configs, k, format, out) ==
    IF k > Len(configs) THEN out
    ELSE render_configs(configs, k + 1, format,
             (IF out # <<>>
              THEN out \o (IF format THEN <<" ", "&", "&", " ">>
                                     ELSE <<" ", "A", "N", "D", " ">>)
              ELSE out) \o render_pattern(configs[k]))

\* The value line of one signature.
render_signature(sig, format) ==
    render_configs(sig.bndm_configs, 1, format, <<>>)
        \o (IF format THEN <<>> ELSE TextEnd)

RECURSIVE render_signatures(_, _, _, _, _)
render_signatures(sigs, k, format, previous_name, out) ==
    IF k > Len(sigs) THEN out
    ELSE LET name == sigs[k].signature_name
             named == IF name # previous_name
                      THEN IF out # <<>> /\ ~starts_with(name, <<"(">>)
                           THEN Append(out, CRLF \o name)
                           ELSE Append(out, name)
                      ELSE out
         IN  render_signatures(sigs, k + 1, format, name,
                               Append(named, render_signature(sigs[k], format)))

\* convert_ids_to_string
convert_ids_to_string(sigs, format) ==
    join(render_signatures(sigs, 1, format, <<>>, <<>>), CRLF) \o CRLF

\* BufRead::lines(): the text cut after each line feed, a final carriage
\* return of a line dropped; text after the last line feed is a line too.
RECURSIVE text_lines(_)
text_lines(s) ==
    LET feeds == {i \in 1 .. Len(s) : s[i] = "\n"}
        strip(l) == IF l # <<>> /\ l[Len(l)] = "\r" THEN SubSeq(l, 1, Len(l) - 1) ELSE l
    IN  IF s = <<>> THEN <<>>
        ELSE IF feeds = {} THEN <<s>>
        ELSE <<strip(SubSeq(s, 1, SetMin(feeds) - 1))>>
                 \o text_lines(SubSeq(s, SetMin(feeds) + 1, Len(s)))

---------------------------------------------------------------------------
(* convert_file_format on every bounded config text, and the converted      *)
(* file read back.                                                          *)

NameParenB == <<"(", "B", ")">>

W00 == <<"0", "0">>

W01 == <<"0", "1">>

\* 20 ?? 30 && 00 ?? 01
LineWildcards == join(<<W20, WordQuestion, W30, WordAmp, W00, WordQuestion, W01>>, Blank)

\* A9 00 8D
LineWithZero == join(<<<<"A", "9">>, W00, <<"8", "D">>>>, Blank)

\* 20 30 && AND 40 50
LineAmpAnd == join(<<W20, W30, WordAmp, WordAND, W40, W50>>, Blank)

ConvertSampleLines ==
    { NamePlayerX, NameParenB, LineAndEnd, LineWildcards, LineWithZero, LineAmpAnd, <<>> }

InitConvert ==
    /\ pc = "convert"
    /\ config_lines \in SeqsUpTo(ConvertSampleLines, MaxLines)
    /\ new_format \in BOOLEAN
    /\ output_string = <<>>
    /\ reloaded = <<>>
    /\ signature_name_to_filter = None
    /\ line_index = 0
    /\ signature_name = <<>>
    /\ signature_lines = <<>>
    /\ ValueIdle
    /\ VerifyIdle
    /\ RunIdle
    /\ RestIdle
    /\ BndmIdle
    /\ ScanIdle

\* verify_signatures reports issues: Err("Issues found in config file.")
ConvertFileFormatIssues ==
    /\ pc = "convert"
    /\ verify_config_file(config_lines) = TRUE
    /\ pc' = "issues"
    /\ UNCHANGED <<signatures, parseVars, convertVars>>
    /\ UNCHANGED <<restVars, verifyVars, runVars, bndmVars, scanRest, valueVars>>

\* No issues, but the config reader returns Err("Not a config file.")
ConvertFileFormatNotConfig ==
    /\ pc = "convert"
    /\ verify_config_file(config_lines) = FALSE
    /\ ~IsSome(read_config_file(config_lines, None))
    /\ pc' = "not_config"
    /\ UNCHANGED <<signatures, parseVars, convertVars>>
    /\ UNCHANGED <<restVars, verifyVars, runVars, bndmVars, scanRest, valueVars>>

\* The config is read, converted and written.
ConvertFileFormat ==
    /\ pc = "convert"
    /\ verify_config_file(config_lines) = FALSE
    /\ IsSome(read_config_file(config_lines, None))
    /\ signatures' = read_config_file(config_lines, None).val
    /\ output_string' = convert_ids_to_string(signatures', new_format)
    /\ pc' = "written"
    /\ UNCHANGED <<parseVars, new_format, reloaded>>
    /\ UNCHANGED <<restVars, verifyVars, runVars, bndmVars, scanRest, valueVars>>

\* The written file is loaded again.
LoadConvertedFile ==
    /\ pc = "written"
    /\ LET loaded == read_config_file(text_lines(output_string), None)
       IN  /\ reloaded' = IF IsSome(loaded) THEN loaded.val ELSE <<>>
           /\ pc' = IF IsSome(loaded) THEN "reloaded" ELSE "reload_failed"
    /\ UNCHANGED <<signatures, parseVars, new_format, output_string>>
    /\ UNCHANGED <<restVars, verifyVars, runVars, bndmVars, scanRest, valueVars>>

NextConvert ==
    \/ ConvertFileFormatIssues
    \/ ConvertFileFormatNotConfig
    \/ ConvertFileFormat
    \/ LoadConvertedFile

SpecConvert == InitConvert /\ [][NextConvert]_vars

---------------------------------------------------------------------------
(* Claims about wildcard selection and the value line, checked under        *)
(* SpecValue.                                                               *)

Range(s) == {s[i] : i \in DOMAIN s}

\* The literal byte values of a token sequence, and whether it holds a `??`.
Literals(values) == {v \in Range(values) : v < CMD_WILDCARD}

UsesWildcard(values) == CMD_WILDCARD \in Range(values)

CoversAllBytes(values) == Literals(values) = Byte

\* The step in which add_signature decides about the collected sub-pattern.
AddSignatureStep ==
    /\ pc \in {"add_in_loop", "add_at_end"}
    /\ pc' \in {"added_in_loop", "added_at_end"}

\* The sub-pattern section 4.C prescribes for tokens that omit a byte value:
\* the smallest omitted value as wildcard, every `??` replaced by it.
PrescribedConfig(values) ==
    LET w == SetMin(Byte \ Literals(values))
    IN  [pattern |-> [i \in 1 .. Len(values) |->
                         IF values[i] = CMD_WILDCARD THEN w ELSE values[i]],
         wildcard |-> Some(w)]

\* The value line cut at its separator words into token sequences, from the
\* words alone: words of one character are no tokens, `??` is CMD_WILDCARD
\* and two hex digits are the byte they denote.
IsSeparatorWord(w) == w \in {WordAND, WordAmp, WordEND}

WordToken(w) ==
    IF w = WordQuestion THEN CMD_WILDCARD
    ELSE IF \E b \in Byte : format_02X(b) = w THEN CHOOSE b \in Byte : format_02X(b) = w
    ELSE 0

GroupTokens(ws) ==
    LET kept == SelectSeq(ws, LAMBDA w : Len(w) >= 2)
    IN  [i \in 1 .. Len(kept) |-> WordToken(kept[i])]

RECURSIVE GroupsFrom(_, _)
GroupsFrom(ws, from) ==
    LET seps == {i \in from .. Len(ws) : IsSeparatorWord(ws[i])}
    IN  IF seps = {} THEN <<GroupTokens(SubSeq(ws, from, Len(ws)))>>
        ELSE <<GroupTokens(SubSeq(ws, from, SetMin(seps) - 1))>>
                 \o GroupsFrom(ws, SetMin(seps) + 1)

Groups(ws) == GroupsFrom(ws, 1)

\* C11: whenever add_signature is given tokens whose literal bytes omit at
\* least one of 0x00..0xFF, whatever the order of the literals and the `??`
\* tokens, it pushes the sub-pattern whose wildcard is the smallest omitted
\* byte value (so no literal equals it) and in which that byte stands at
\* every `??`.
C11_SmallestOmittedByteIsWildcard ==
    [][(AddSignatureStep /\ ~CoversAllBytes(signature_values))
          => bndm_configs' = Append(bndm_configs, PrescribedConfig(signature_values))]_vars

\* C11 witness: a sub-pattern with `??` and literals 0x00 .. w-1 in some
\* order was pushed with wildcard w >= 1, a byte that is none of its literals.
C11_Witness ==
    /\ pc \in {"added_in_loop", "added_at_end"}
    /\ UsesWildcard(signature_values)
    /\ 0 \in Literals(signature_values)
    /\ signature_values[1] = CMD_WILDCARD
    /\ bndm_configs # <<>>
    /\ bndm_configs[Len(bndm_configs)] = PrescribedConfig(signature_values)
    /\ bndm_configs[Len(bndm_configs)].wildcard.val >= 1

\* C12: a sub-pattern whose literals are all 256 byte values and that holds
\* a `??` is not pushed, and once the value line is processed every other
\* sub-pattern of the line that omits some byte value is among the pushed
\* ones, while no pushed one has the dropped sub-pattern's bytes.
C12_DroppedStep ==
    (AddSignatureStep /\ CoversAllBytes(signature_values) /\ UsesWildcard(signature_values))
        => bndm_configs' = bndm_configs

C12_OthersKept ==
    pc = "returned" =>
        \A k \in DOMAIN Groups(words) :
            LET g == Groups(words)[k]
            IN  /\ (g # <<>> /\ ~CoversAllBytes(g))
                    => \E i \in DOMAIN bndm_configs : bndm_configs[i] = PrescribedConfig(g)
                /\ (CoversAllBytes(g) /\ UsesWildcard(g))
                    => \A i \in DOMAIN bndm_configs : Len(bndm_configs[i].pattern) # Len(g)

C12_FullSubPatternWithWildcardIsDropped ==
    [][C12_DroppedStep]_vars /\ []C12_OthersKept

\* C12 witness: a value line of three sub-patterns, the middle one with all
\* 256 byte values and a `??`, was processed and the two others were pushed.
C12_Witness ==
    /\ pc = "returned"
    /\ Len(Groups(words)) = 3
    /\ CoversAllBytes(Groups(words)[2])
    /\ UsesWildcard(Groups(words)[2])
    /\ bndm_configs = <<PrescribedConfig(Groups(words)[1]), PrescribedConfig(Groups(words)[3])>>

\* C13: a sub-pattern whose literals are all 256 byte values and that holds
\* no `??` is pushed with wildcard none and its bytes unchanged.
C13_FullSubPatternWithoutWildcardIsAccepted ==
    [][(AddSignatureStep /\ CoversAllBytes(signature_values) /\ ~UsesWildcard(signature_values))
          => bndm_configs' = Append(bndm_configs,
                                    [pattern |-> signature_values, wildcard |-> None])]_vars

\* C14: every sub-pattern process_signature_value has pushed, for any value
\* line, has a pattern of at least one byte.
C14_NoEmptySubPattern ==
    \A i \in DOMAIN bndm_configs : Len(bndm_configs[i].pattern) >= 1

---------------------------------------------------------------------------
(* Claims about the config parser, checked under SpecParse.                 *)

\* The words of a value line as section 4.D reads them: case-insensitive,
\* separated by whitespace.
LineWords(line) == split_ascii_whitespace(to_ascii_uppercase(line))

IsByteWord(w) == w = WordQuestion \/ \E b \in Byte : format_02X(b) = w

\* A value line of byte groups separated by AND or && that may end with END.
IsGroupedValueLine(line) ==
    LET ws == LineWords(line)
        body == IF ws # <<>> /\ ws[Len(ws)] = WordEND THEN SubSeq(ws, 1, Len(ws) - 1) ELSE ws
    IN  /\ body # <<>>
        /\ \A i \in DOMAIN body : IsByteWord(body[i]) \/ body[i] \in {WordAND, WordAmp}
        /\ \A k \in DOMAIN Groups(body) : Groups(body)[k] # <<>>

\* Its byte groups in textual order, each as the sub-pattern of section 4.C.
GroupedSubPatterns(line) ==
    LET ws == LineWords(line)
        body == IF ws # <<>> /\ ws[Len(ws)] = WordEND THEN SubSeq(ws, 1, Len(ws) - 1) ELSE ws
    IN  [k \in 1 .. Len(Groups(body)) |-> PrescribedConfig(Groups(body)[k])]

FilterAccepts(name) ==
    \/ ~IsSome(signature_name_to_filter)
    \/ to_ascii_uppercase(signature_name_to_filter.val) = to_ascii_uppercase(name)

\* C15: a config of a name line followed by one value line of byte groups
\* separated by AND or &&, with or without a final END, in any letter case,
\* parses to exactly one signature of that name whose sub-patterns are the
\* byte groups in textual order; END adds no sub-pattern.
C15_NameAndValueLineGiveOneSignature ==
    (/\ pc = "loaded"
     /\ Len(config_lines) = 2
     /\ line_kind(config_lines[1]) = "name"
     /\ IsGroupedValueLine(config_lines[2])
     /\ FilterAccepts(trim(config_lines[1])))
        => signatures = <<[signature_name |-> trim(config_lines[1]),
                           bndm_configs |-> GroupedSubPatterns(config_lines[2])]>>

\* C15 witness: `PlayerX` / `20 30 AND 40 50 END` was parsed to one signature
\* PlayerX with the sub-patterns [0x20, 0x30] and [0x40, 0x50].
C15_Witness ==
    /\ pc = "loaded"
    /\ config_lines = <<NamePlayerX, LineAndEnd>>
    /\ signatures = <<[signature_name |-> NamePlayerX,
                       bndm_configs |-> <<[pattern |-> <<32, 48>>, wildcard |-> Some(0)],
                                          [pattern |-> <<64, 80>>, wildcard |-> Some(0)]>>]>>

\* C16: right after a value line ending in END is processed no value line is
\* pending, and when a name line follows such a line the signatures of the
\* whole file are those of the text up to the END line followed by those of
\* the text from the name line on, parsed on its own.
C16_SignatureAfterEndIsIntact ==
    /\ (pc = "lines" /\ line_index > 0
            /\ line_kind(config_lines[line_index]) = "value_end")
           => signature_lines = <<>>
    /\ pc = "loaded" =>
           \A k \in 1 .. Len(config_lines) - 1 :
               (line_kind(config_lines[k]) = "value_end"
                    /\ line_kind(config_lines[k + 1]) = "name")
                   => signatures =
                          read_config_lines(SubSeq(config_lines, 1, k),
                                            signature_name_to_filter)
                          \o read_config_lines(SubSeq(config_lines, k + 1, Len(config_lines)),
                                               signature_name_to_filter)

\* C16 witness: PlayerX / `20 30 AND 40 50 END` / Abc / `20 30` was parsed and
\* the second signature is Abc with the single sub-pattern [0x20, 0x30].
C16_Witness ==
    /\ pc = "loaded"
    /\ config_lines = <<NamePlayerX, LineAndEnd, NameAbc, LinePlain>>
    /\ Len(signatures) = 2
    /\ signatures[2] = [signature_name |-> NameAbc,
                        bndm_configs |-> <<[pattern |-> <<32, 48>>, wildcard |-> Some(0)]>>]

\* C17: the signatures returned with a name filter are, in the same order
\* and with the same sub-patterns, those of the unfiltered result whose name
\* equals the filter ignoring ASCII case; without a filter all are returned.
C17_NameFilterSelectsSubsequence ==
    pc = "loaded" =>
        signatures = SelectSeq(read_config_lines(config_lines, None),
                               LAMBDA s : FilterAccepts(s.signature_name))

\* C17 witness: a filter that differs in case from the name it keeps has
\* removed a signature of another name and kept one.
C17_Witness ==
    /\ pc = "loaded"
    /\ IsSome(signature_name_to_filter)
    /\ signatures # <<>>
    /\ signatures[1].signature_name = NamePlayerX
    /\ signature_name_to_filter.val # NamePlayerX
    /\ Len(read_config_lines(config_lines, None)) > Len(signatures)

---------------------------------------------------------------------------
(* Claims about convert_file_format (SpecConvert).                          *)

\* A line the config reader takes for a value line.
IsValueLine(line) ==
    is_signature_min_length(trim(line)) /\ ~is_signature_name(trim(line))

RECURSIVE ValueWordsFrom(_, _)
ValueWordsFrom(lines, k) ==
    IF k > Len(lines) THEN <<>>
    ELSE (IF IsValueLine(lines[k])
          THEN SelectSeq(LineWords(lines[k]), LAMBDA w : ~IsSeparatorWord(w))
          ELSE <<>>) \o ValueWordsFrom(lines, k + 1)

\* The byte tokens and `??` of all value lines of a text, in textual order.
ValueWords(lines) == ValueWordsFrom(lines, 1)

NamesOf(sigs) == [k \in DOMAIN sigs |-> sigs[k].signature_name]

PatternsOf(sigs) ==
    [k \in DOMAIN sigs |->
        [j \in DOMAIN sigs[k].bndm_configs |-> sigs[k].bndm_configs[j].pattern]]

\* C18: a config that passes validation, converted to either form and read
\* again, gives an equal list of signatures (same names in the same order,
\* same sub-pattern bytes), and the written value lines carry the same byte
\* tokens and `??` at the same positions as the value lines of the input.
C18_ConvertRoundTrip ==
    /\ pc # "reload_failed"
    /\ pc = "reloaded" =>
         /\ reloaded = signatures
         /\ NamesOf(reloaded) = NamesOf(signatures)
         /\ PatternsOf(reloaded) = PatternsOf(signatures)
         /\ ValueWords(text_lines(output_string)) = ValueWords(config_lines)

\* Two signatures were written and read again, one of them with a `??`
\* inside a sub-pattern and more than one sub-pattern.
C18_Witness ==
    /\ pc = "reloaded"
    /\ Len(reloaded) >= 2
    /\ \E k \in DOMAIN signatures :
         /\ Len(signatures[k].bndm_configs) >= 2
         /\ \E j \in DOMAIN signatures[k].bndm_configs :
              LET config == signatures[k].bndm_configs[j]
              IN  /\ IsSome(config.wildcard)
                  /\ \E i \in DOMAIN config.pattern : config.pattern[i] = config.wildcard.val
    /\ \E i \in DOMAIN ValueWords(config_lines) : ValueWords(config_lines)[i] = WordQuestion

---------------------------------------------------------------------------
(* main.rs: run, from the scan of the files found to the summary.           *)

\* PlayerId::find_players_in_file on a file of the run: vec![] when the file
\* cannot be read.
find_players_in_file(file, sigs, multiple) ==
    IF file.readable
    THEN find_signatures(file.data, PlayerId_get_data_offset(file.filename, file.data),
                         sigs, multiple)
    ELSE [panicked |-> FALSE, matches |-> <<>>]

PlayerInfo(players, name) == [players |-> players, filename |-> name]

\* The filter of the parallel map: which entries are kept for listing.
is_listed(info, u, o) ==
    \/ info.players = <<>> /\ (o \/ u)
    \/ info.players # <<>> /\ ~o

\* The longest enumerated file list.
MaxFiles == 3

\* 01 02 and 01 ?? 02
RunSignatures ==
    << SignatureConfig("A", <<BndmConfig_new(<<1, 2>>, Some(0))>>),
       SignatureConfig("B", <<BndmConfig_new(<<1, 0, 2>>, Some(0))>>) >>

RunFileName == <<"t", ".", "s", "i", "d">>

RunFile(readable, bytes) ==
    [filename |-> RunFileName, readable |-> readable, data |-> bytes]

\* Files that hold both players, one player, none, and a file that cannot
\* be read.
SampleRunFiles ==
    { RunFile(TRUE, <<1, 2, 2>>), RunFile(TRUE, <<1, 0, 2>>),
      RunFile(TRUE, <<0, 0>>), RunFile(FALSE, <<>>) }

InitRun ==
    /\ pc = "run"
    /\ files \in UNION {[1 .. n -> SampleRunFiles] : n \in 1 .. MaxFiles}
    /\ list_unidentified \in BOOLEAN
    /\ only_list_unidentified \in BOOLEAN
    /\ signatures = RunSignatures
    /\ scan_for_multiple \in BOOLEAN
    /\ players_found = <<>>
    /\ player_index = 0
    /\ identified_players = 0
    /\ identified_files = 0
    /\ unidentified_files = 0
    /\ processed_files = Len(files)
    /\ filename = <<>>
    /\ data = <<>>
    /\ data_offset = 0
    /\ matches = <<>>
    /\ ValueIdle
    /\ ParseIdle
    /\ ConvertIdle
    /\ VerifyIdle
    /\ RestIdle
    /\ BndmIdle

runRest == <<restVars, bndmVars, scanVars, valueVars, parseVars, convertVars, verifyVars,
             files, list_unidentified, only_list_unidentified, processed_files>>

\* The parallel map over the files, its filter and collect.
ScanFiles ==
    /\ pc = "run"
    /\ LET found == [k \in DOMAIN files |->
                        find_players_in_file(files[k], signatures, scan_for_multiple)]
           infos == [k \in DOMAIN files |-> PlayerInfo(found[k].matches, files[k].filename)]
       IN  /\ players_found' =
                 SelectSeq(infos, LAMBDA info :
                              is_listed(info, list_unidentified, only_list_unidentified))
           /\ pc' = IF \E k \in DOMAIN files : found[k].panicked
                    THEN "panicked" ELSE "listing"
    /\ UNCHANGED <<player_index, identified_players, identified_files, unidentified_files>>
    /\ UNCHANGED runRest

CurrentPlayerInfo == players_found[player_index + 1]

\* The listing loop on an entry without players.
ListUnidentified ==
    /\ pc = "listing"
    /\ player_index < Len(players_found)
    /\ CurrentPlayerInfo.players = <<>>
    /\ unidentified_files' = unidentified_files + 1
    /\ player_index' = player_index + 1
    /\ UNCHANGED <<pc, players_found, identified_players, identified_files>>
    /\ UNCHANGED runRest

\* The listing loop on an entry with players.
ListIdentified ==
    /\ pc = "listing"
    /\ player_index < Len(players_found)
    /\ CurrentPlayerInfo.players # <<>>
    /\ identified_files' = identified_files + 1
    /\ identified_players' = identified_players + Len(CurrentPlayerInfo.players)
    /\ player_index' = player_index + 1
    /\ UNCHANGED <<pc, players_found, unidentified_files>>
    /\ UNCHANGED runRest

\* After the loop, some file identified: the unidentified count is set to
\* the rest of the processed files.
SummaryWithIdentified ==
    /\ pc = "listing"
    /\ player_index = Len(players_found)
    /\ identified_files > 0
    /\ unidentified_files' = processed_files - identified_files
    /\ pc' = "summary"
    /\ UNCHANGED <<players_found, player_index, identified_players, identified_files>>
    /\ UNCHANGED runRest

\* After the loop, no file identified: the counters are printed as they are.
SummaryWithoutIdentified ==
    /\ pc = "listing"
    /\ player_index = Len(players_found)
    /\ identified_files = 0
    /\ pc' = "summary"
    /\ UNCHANGED <<players_found, player_index, identified_players, identified_files,
                   unidentified_files>>
    /\ UNCHANGED runRest

NextRun ==
    \/ ScanFiles
    \/ ListUnidentified
    \/ ListIdentified
    \/ SummaryWithIdentified
    \/ SummaryWithoutIdentified

SpecRun == InitRun /\ [][NextRun]_vars

---------------------------------------------------------------------------
(* Claims about the summary of a run (SpecRun).                             *)

\* The files of the run whose match list is empty.
FilesWithoutMatch ==
    {k \in DOMAIN files :
        find_players_in_file(files[k], signatures, scan_for_multiple).matches = <<>>}

\* C19: in the summary of every run, whatever the -u and -o flags, identified
\* files + unidentified files = total files processed, and every file with an
\* empty match list (a file that cannot be read is one) is counted as
\* unidentified.
C19_CountersAddUp ==
    pc = "summary" =>
        /\ processed_files = Len(files)
        /\ identified_files + unidentified_files = processed_files
        /\ unidentified_files = Cardinality(FilesWithoutMatch)

---------------------------------------------------------------------------
(* verify_config_file on every bounded config text and on configs with      *)
(* value lines of about 255 byte tokens.                                    *)

\* ?? 30 40
LineWildcardFirst == join(<<WordQuestion, W30, W40>>, Blank)

\* 20 30 && 40
LineOneByteSubPattern == join(<<W20, W30, WordAmp, W40>>, Blank)

VerifySampleLines ==
    { NamePlayerX, LineAndEnd, LineWildcards, LineLowerCase, LineWildcardFirst,
      LineOneByteSubPattern, <<>> }

\* n byte tokens: 01 02 03 ...
ByteWords(n) == [i \in 1 .. n |-> format_02X(i % 256)]

\* The lengths, in byte tokens, of the long sub-patterns.
LongLengths == {253, 254, 255, 256}

\* Value lines whose only or last sub-pattern has n byte tokens, with and
\* without END.
LongLines ==
    UNION { { join(ByteWords(n), Blank),
              join(ByteWords(n) \o <<WordEND>>, Blank),
              join(<<W20, W30, WordAmp>> \o ByteWords(n), Blank),
              join(<<W20, W30, WordAND>> \o ByteWords(n) \o <<WordEND>>, Blank),
              join(ByteWords(n) \o <<WordAmp, W20, W30>>, Blank) } : n \in LongLengths }

\* A name followed by one long value line, and possibly a second signature.
LongConfigs ==
    { <<NamePlayerX, l>> : l \in LongLines }
    \cup { <<NamePlayerX, l, <<>>, NameAbc, LineAndEnd>> : l \in LongLines }

InitVerify ==
    /\ pc = "verify"
    /\ config_lines \in SeqsUpTo(VerifySampleLines, MaxLines) \cup LongConfigs
    /\ issues_found = FALSE
    /\ signature_name_to_filter = None
    /\ line_index = 0
    /\ signature_name = <<>>
    /\ signature_lines = <<>>
    /\ ValueIdle
    /\ ConvertIdle
    /\ RunIdle
    /\ RestIdle
    /\ BndmIdle
    /\ ScanIdle

verifyRest == <<restVars, bndmVars, scanVars, valueVars, parseVars, convertVars, runVars>>

\* The call of verify_config_file and its result.
VerifyConfigFile ==
    /\ pc = "verify"
    /\ issues_found' = verify_config_file(config_lines)
    /\ pc' = "verified"
    /\ UNCHANGED verifyRest

NextVerify == VerifyConfigFile

SpecVerify == InitVerify /\ [][NextVerify]_vars

---------------------------------------------------------------------------
(* Claims about the validator (SpecVerify).                                 *)

RECURSIVE PiecesFrom(_, _)
PiecesFrom(ws, from) ==
    LET seps == {i \in from .. Len(ws) : ws[i] \in {WordAND, WordAmp}}
    IN  IF seps = {} THEN <<SubSeq(ws, from, Len(ws))>>
        ELSE <<SubSeq(ws, from, SetMin(seps) - 1)>> \o PiecesFrom(ws, SetMin(seps) + 1)

\* The pieces of a value line between its AND and && separators.
SubPatternPieces(line) == PiecesFrom(LineWords(line), 1)

\* The byte tokens of a piece: its hex pairs and `??`.
ByteTokenCount(piece) == Len(SelectSeq(piece, LAMBDA w : w # WordEND))

\* The longest sub-pattern the validator accepts, in byte tokens.
MAX_SUB_PATTERN_BYTES == 254

HasTooLongSubPattern ==
    \E k \in DOMAIN config_lines :
        /\ IsValueLine(config_lines[k])
        /\ \E j \in DOMAIN SubPatternPieces(config_lines[k]) :
               ByteTokenCount(SubPatternPieces(config_lines[k])[j]) > MAX_SUB_PATTERN_BYTES

\* C20: a config with a value line one of whose sub-patterns (pieces between
\* AND and && separators) has more than 254 byte tokens makes
\* verify_config_file report issues, also when the sub-pattern has exactly
\* 255 byte tokens and no END follows.
C20_TooLongSubPatternIsReported ==
    (pc = "verified" /\ HasTooLongSubPattern) => issues_found

\* The fewest byte tokens of a sub-pattern the validator should accept.
MIN_SUB_PATTERN_BYTES == 2

HasTooShortSubPattern ==
    \E k \in DOMAIN config_lines :
        /\ IsValueLine(config_lines[k])
        /\ \E j \in DOMAIN SubPatternPieces(config_lines[k]) :
               ByteTokenCount(SubPatternPieces(config_lines[k])[j]) < MIN_SUB_PATTERN_BYTES

\* C21: a config with a value line one of whose sub-patterns has fewer than
\* two byte tokens (END not counted) makes verify_config_file report issues,
\* also when that sub-pattern is one of several on its line (20 30 && 40).
C21_TooShortSubPatternIsReported ==
    (pc = "verified" /\ HasTooShortSubPattern) => issues_found

---------------------------------------------------------------------------
(* player_id.rs: load_config_file.                                          *)

Ok(v) == [kind |-> "Ok", val |-> v]

\* Err(format!("{message}{argument}"))
Err(message, argument) == [kind |-> "Err", message |-> message, argument |-> argument]

\* A variant that returns whatever was parsed.
load_config_file_result_unchecked(signature_ids, player_name) == Ok(signature_ids)

\* The end of load_config_file: an empty set is an error.
load_config_file_result(signature_ids, player_name) ==
    IF signature_ids = <<>>
    THEN IF ~IsSome(player_name)
         THEN Err("No signature defined.", <<>>)
         ELSE Err("No signature found with name: ", player_name.val)
    ELSE Ok(signature_ids)

\* load_config_file, given whether the file can be read and its lines.
load_config_file(readable, lines, player_name) ==
    IF ~readable THEN Err("Error reading file: ", <<>>)
    ELSE LET signature_ids == read_config_file(lines, player_name)
         IN  IF ~IsSome(signature_ids) THEN Err("Not a config file.", <<>>)
             ELSE load_config_file_result(signature_ids.val, player_name)

---------------------------------------------------------------------------
(* load_config_file on every bounded config text, with and without a name   *)
(* filter.                                                                  *)

\* 7  7: a value line whose words are all shorter than two characters
LineShortWords == <<"7", " ", " ", "7">>

LoadSampleLines == { NamePlayerX, NameAbc, LineAndEnd, LinePlain, LineShortWords, <<>> }

InitLoad ==
    /\ pc = "load_config_file"
    /\ config_lines \in SeqsUpTo(LoadSampleLines, MaxLines)
    /\ signature_name_to_filter \in SampleFilters
    /\ load_result = <<>>
    /\ line_index = 0
    /\ signature_name = <<>>
    /\ signature_lines = <<>>
    /\ SplitIdle
    /\ WindowIdle
    /\ PoolIdle
    /\ ValueIdle
    /\ ConvertIdle
    /\ VerifyIdle
    /\ RunIdle
    /\ BndmIdle
    /\ ScanIdle

loadRest == <<splitVars, windowVars, poolVars, valueVars, parseVars, convertVars,
              verifyVars, runVars, bndmVars, scanVars>>

\* The call, the file of the given readability.
LoadConfigFileCall(readable, kind) ==
    /\ pc = "load_config_file"
    /\ load_result' = load_config_file(readable, config_lines, signature_name_to_filter)
    /\ load_result'.kind = kind
    /\ pc' = "returned"
    /\ UNCHANGED loadRest

\* read_text_file fails.
LoadConfigFileUnreadable == LoadConfigFileCall(FALSE, "Err")

\* Err: not a config file, or no signature.
LoadConfigFileErr == LoadConfigFileCall(TRUE, "Err")

\* Ok(signature_ids)
LoadConfigFileOk == LoadConfigFileCall(TRUE, "Ok")

NextLoad ==
    \/ LoadConfigFileUnreadable
    \/ LoadConfigFileErr
    \/ LoadConfigFileOk

SpecLoad == InitLoad /\ [][NextLoad]_vars

---------------------------------------------------------------------------
(* Claims about load_config_file (SpecLoad).                                *)

\* C22: load_config_file never returns an empty signature set as success.
\* When the config is read and parsing, after the name filter, gives no
\* signature, it returns `No signature defined.` without a filter and
\* `No signature found with name: <name>` with one; otherwise it returns the
\* parsed set.
C22_EmptySetIsAnError ==
    pc = "returned" =>
        LET parsed == read_config_file(config_lines, signature_name_to_filter)
        IN  /\ load_result.kind = "Ok" =>
                /\ load_result.val # <<>>
                /\ IsSome(parsed) /\ load_result.val = parsed.val
            /\ (load_result.kind = "Err" /\ IsSome(parsed)
                    /\ load_result.message # "Error reading file: ") =>
                /\ parsed.val = <<>>
                /\ ~IsSome(signature_name_to_filter)
                       => load_result = Err("No signature defined.", <<>>)
                /\ IsSome(signature_name_to_filter)
                       => load_result = Err("No signature found with name: ",
                                            signature_name_to_filter.val)

\* A config with signatures, none of the filter's name: the error names the
\* filter.
C22_Witness ==
    /\ pc = "returned"
    /\ IsSome(signature_name_to_filter)
    /\ load_result = Err("No signature found with name: ", signature_name_to_filter.val)
    /\ IsSome(read_config_file(config_lines, None))
    /\ read_config_file(config_lines, None).val # <<>>

\* Payloads on which the parsed signatures are tried.
ProbePayloads == { <<>>, <<0>>, <<32, 48, 64, 80>> }

\* C28: every signature the config parser returns has at least one
\* sub-pattern, so find_signatures reports a signature only with the offset
\* of at least one byte pattern found in the payload.
C28_EverySignatureHasASubPattern ==
    (pc = "returned" /\ load_result.kind = "Ok") =>
        /\ \A k \in DOMAIN load_result.val : load_result.val[k].bndm_configs # <<>>
        /\ \A payload \in ProbePayloads :
               LET r == find_signatures(payload, 0, load_result.val, TRUE)
               IN  \A m \in DOMAIN r.matches : r.matches[m].indexes # <<>>

---------------------------------------------------------------------------
(* Claims about signature names (SpecParse).                                *)

IsNameLine(line) ==
    is_signature_min_length(trim(line)) /\ is_signature_name(trim(line))

\* C30: every signature the config reader returns has a non-empty name, the
\* text of a name line of the config; a value line that follows a blank or
\* short line without a name line in between gives no signature with an
\* empty name.
C30_EverySignatureHasAName ==
    pc = "loaded" =>
        \A k \in DOMAIN signatures :
            /\ signatures[k].signature_name # <<>>
            /\ \E n \in DOMAIN config_lines :
                   /\ IsNameLine(config_lines[n])
                   /\ signatures[k].signature_name = trim(config_lines[n])

---------------------------------------------------------------------------
(* Claims about old-format values of several lines (SpecParse).             *)

\* A config of a name line, a value line without END and a value line that
\* ends with END, whose signature the name filter accepts.
IsTwoLineValueConfig ==
    /\ Len(config_lines) = 3
    /\ line_kind(config_lines[1]) = "name"
    /\ line_kind(config_lines[2]) = "value"
    /\ line_kind(config_lines[3]) = "value_end"
    /\ IsGroupedValueLine(config_lines[2])
    /\ IsGroupedValueLine(config_lines[3])
    /\ FilterAccepts(trim(config_lines[1]))

\* The two value lines as one line, a blank between them.
JoinedValueLine == trim(config_lines[2]) \o Blank \o trim(config_lines[3])

\* C29 as stated: of a name followed by several value lines, the last ending
\* with END, each value line gives its own sub-patterns of the one resulting
\* signature: a line break separates sub-patterns as AND does.
C29_EachValueLineIsASubPattern ==
    (pc = "loaded" /\ IsTwoLineValueConfig)
        => signatures = <<[signature_name |-> trim(config_lines[1]),
                           bndm_configs |-> GroupedSubPatterns(config_lines[2])
                                                \o GroupedSubPatterns(config_lines[3])]>>

\* C29 amended: the value lines up to the one ending with END are joined
\* with a blank and parsed as that one value line would be; a line break
\* separates byte tokens, not sub-patterns, so the last byte group of a line
\* and the first of the next are one sub-pattern unless AND or && stands
\* between them.
C29_ValueLinesAreJoined ==
    (pc = "loaded" /\ IsTwoLineValueConfig)
        => /\ signatures = read_config_lines(<<config_lines[1], JoinedValueLine>>,
                                              signature_name_to_filter)
           /\ IsGroupedValueLine(JoinedValueLine)
                  => signatures = <<[signature_name |-> trim(config_lines[1]),
                                     bndm_configs |-> GroupedSubPatterns(JoinedValueLine)]>>

\* C29 witness: Abc / `20 30` / `20 30 AND 40 50 END` was parsed to the one
\* signature Abc with the sub-patterns [0x20, 0x30, 0x20, 0x30] and
\* [0x40, 0x50].
C29_Witness ==
    /\ pc = "loaded"
    /\ config_lines = <<NameAbc, LinePlain, LineAndEnd>>
    /\ signatures = <<[signature_name |-> NameAbc,
                       bndm_configs |-> <<[pattern |-> <<32, 48, 32, 48>>,
                                           wildcard |-> Some(0)],
                                          [pattern |-> <<64, 80>>, wildcard |-> Some(0)]>>]>>

---------------------------------------------------------------------------
(* config.rs: split_file_path.                                              *)

Slash == "/"

BackSlash == "\\"

\* str::replace(from, to) for single characters
replace_char(s, from, to) == [k \in DOMAIN s |-> IF s[k] = from THEN to ELSE s[k]]

\* str::rfind(c): the 0-based index of the last c, None without one
rfind(s, c) ==
    LET at == {k \in DOMAIN s : s[k] = c}
    IN  IF at = {} THEN None ELSE Some(SetMax(at) - 1)

\* &s[from..to] with 0-based byte indexes
str_slice(s, from, to) == SubSeq(s, from + 1, to)

\* A variant that takes only `/` for a separator.
split_file_path_slash_only(file_name) ==
    LET found == rfind(file_name, Slash)
        index == found.val
    IN  IF IsSome(found)
        THEN IF index = 0
             THEN <<str_slice(file_name, 0, 1), str_slice(file_name, 1, Len(file_name))>>
             ELSE IF index > 1 /\ starts_with(file_name, <<".", Slash>>)
             THEN <<str_slice(file_name, 2, index),
                    str_slice(file_name, index + 1, Len(file_name))>>
             ELSE <<str_slice(file_name, 0, index),
                    str_slice(file_name, index + 1, Len(file_name))>>
        ELSE <<<<".">>, file_name>>

\* Config::split_file_path: (base path, file)
split_file_path(file_name) ==
    LET filename_unix == replace_char(file_name, BackSlash, Slash)
        found == rfind(filename_unix, Slash)
        index == found.val
    IN  IF IsSome(found)
        THEN IF index = 0
             THEN <<str_slice(file_name, 0, 1), str_slice(file_name, 1, Len(file_name))>>
             ELSE IF index > 1 /\ starts_with(filename_unix, <<".", Slash>>)
             THEN <<str_slice(file_name, 2, index),
                    str_slice(file_name, index + 1, Len(file_name))>>
             ELSE <<str_slice(file_name, 0, index),
                    str_slice(file_name, index + 1, Len(file_name))>>
        ELSE <<<<".">>, file_name>>

---------------------------------------------------------------------------
(* split_file_path on every bounded path.                                   *)

\* The longest enumerated path, in characters.
MaxPathLen == 5

PathChars == {".", Slash, BackSlash, "t", "*"}

InitSplit ==
    /\ pc = "split"
    /\ path_argument \in SeqsUpTo(PathChars, MaxPathLen)
    /\ split_result = <<>>
    /\ LoadIdle
    /\ WindowIdle
    /\ PoolIdle
    /\ ValueIdle
    /\ ParseIdle
    /\ ConvertIdle
    /\ VerifyIdle
    /\ RunIdle
    /\ BndmIdle
    /\ ScanIdle

SplitFilePath ==
    /\ pc = "split"
    /\ split_result' = split_file_path(path_argument)
    /\ pc' = "done"
    /\ UNCHANGED path_argument
    /\ UNCHANGED <<loadVars, windowVars, poolVars, valueVars, parseVars, convertVars,
                   verifyVars, runVars, bndmVars, scanVars>>

NextSplit == SplitFilePath

SpecSplit == InitSplit /\ [][NextSplit]_vars

---------------------------------------------------------------------------
(* Claims about split_file_path (SpecSplit).                                *)

IsSeparator(c) == c \in {Slash, BackSlash}

Separators(p) == {k \in DOMAIN p : IsSeparator(p[k])}

\* The 1-based position of the last separator of p (which has one).
LastSeparator(p) == SetMax(Separators(p))

StartsWithDotSeparator(p) == Len(p) >= 2 /\ p[1] = "." /\ IsSeparator(p[2])

\* The cases of the claim: what base and file are.
SplitCases(p, base, file) ==
    IF Separators(p) = {}
    THEN base = <<".">> /\ file = p
    ELSE LET at == LastSeparator(p)
         IN  /\ file = SubSeq(p, at + 1, Len(p))
             /\ base = (IF at = 1 THEN SubSeq(p, 1, 1)
                        ELSE IF at > 2 /\ StartsWithDotSeparator(p) THEN SubSeq(p, 3, at - 1)
                        ELSE SubSeq(p, 1, at - 1))

\* base + separator + file is p, or p without its leading `./`.
Reproduces(p, base, sep, file) ==
    \/ base \o <<sep>> \o file = p
    \/ StartsWithDotSeparator(p) /\ base \o <<sep>> \o file = SubSeq(p, 3, Len(p))

\* C23 as stated: the cases, and base + separator + file always reproduces p
\* up to the stripped `./` prefix (without a separator in p, up to the `./`
\* the base `.` adds).
C23_SplitFilePathAlwaysReproduces ==
    pc = "done" =>
        LET base == split_result[1]
            file == split_result[2]
        IN  /\ SplitCases(path_argument, base, file)
            /\ IF Separators(path_argument) = {}
               THEN base \o <<Slash>> \o file = <<".", Slash>> \o path_argument
               ELSE Reproduces(path_argument, base,
                               path_argument[LastSeparator(path_argument)], file)

\* C23 amended: the cases as stated; base + separator + file reproduces p up
\* to the stripped `./` prefix when the last separator is not at index 0;
\* when it is at index 0 the base is that separator itself and base + file
\* is p.
C23_SplitFilePath ==
    pc = "done" =>
        LET base == split_result[1]
            file == split_result[2]
        IN  /\ SplitCases(path_argument, base, file)
            /\ IF Separators(path_argument) = {}
               THEN base \o <<Slash>> \o file = <<".", Slash>> \o path_argument
               ELSE IF LastSeparator(path_argument) = 1
               THEN base \o file = path_argument /\ base = <<path_argument[1]>>
               ELSE Reproduces(path_argument, base,
                               path_argument[LastSeparator(path_argument)], file)

\* `.\t/*` was split into the base `t` and the file `*`.
C23_Witness ==
    /\ pc = "done"
    /\ path_argument = <<".", BackSlash, "t", Slash, "*">>
    /\ split_result = << <<"t">>, <<"*">> >>

---------------------------------------------------------------------------
(* Claims about the records of a scan for multiple players (SpecScan).      *)

\* The signatures that occur in the payload, in signature-set order.
OccurringSignatures ==
    SelectSeq([s \in DOMAIN signatures |-> s], LAMBDA s : SignatureOccurs(s))

\* Of the occurring signatures, the first of every run of the same name.
FirstOfRuns ==
    LET hits == OccurringSignatures
    IN  SelectSeq([h \in DOMAIN hits |-> h],
                  LAMBDA h : h = 1 \/ signatures[hits[h - 1]].signature_name
                                          # signatures[hits[h]].signature_name)

\* C24: after a scan with scan_for_multiple = true no two adjacent records
\* carry the same name; the records are, in signature-set order, those of the
\* first signature of every run of consecutive matching signatures of one
\* name, with its offsets; a name that matches again after another name is
\* reported again.
C24_AdjacentDuplicatesRemoved ==
    (pc = "done" /\ scan_for_multiple) =>
        /\ \A m \in 1 .. Len(matches) - 1 :
               matches[m].signature_name # matches[m + 1].signature_name
        /\ matches =
               [r \in DOMAIN FirstOfRuns |->
                   LET s == OccurringSignatures[FirstOfRuns[r]]
                   IN  SignatureMatch(signatures[s].signature_name,
                           ReferenceOffsets(data, data_offset,
                                            signatures[s].bndm_configs, 1).val)]

\* Three signatures named A, B, A all occur and three records are
\* returned.
C24_Witness ==
    /\ pc = "done" /\ scan_for_multiple /\ Len(signatures) = 3
    /\ signatures[1].signature_name = signatures[3].signature_name
    /\ signatures[1].signature_name # signatures[2].signature_name
    /\ \A s \in 1 .. 3 : SignatureOccurs(s)
    /\ Len(matches) = 3
    /\ matches[1].signature_name = matches[3].signature_name
    /\ matches[1].indexes # matches[3].indexes

---------------------------------------------------------------------------
(* bndm.rs: find_small_pattern and find_large_pattern, step by step.        *)

is_large_pattern(config) == Len(config.pattern) > WORD_SIZE_IN_BITS

\* let len = ...
window_len(config) ==
    IF is_large_pattern(config) THEN WORD_SIZE_IN_BITS - 1 ELSE Len(config.pattern) - 1

\* let end = source.len() - (config.pattern.len() - 1)
window_end(src, config) == Len(src) - (Len(config.pattern) - 1)

\* let df = 1 << len
window_df(config) == Shl(1, window_len(config))

WindowState(status, j, last, d) == [status |-> status, j |-> j, last |-> last, d |-> d]

\* The body of `while i < end` up to the inner loop: j, last and the first
\* two masks.
outer_body(src, config, i) ==
    LET len == window_len(config)
    IN  IF OutOfRange(src, i + len) \/ OutOfRange(src, i + len - 1)
        THEN WindowState("panic", len, len, 0)
        ELSE WindowState("continue", len, len,
                 BitAnd(Shl(config.masks[Idx(src, i + len)], 1),
                        config.masks[Idx(src, i + len - 1)]))

\* A variant of the long-pattern path without `j += 1` after a failed
\* comparison of the remaining bytes.
inner_body_no_increment(src, config, i, st) ==
    LET j1 == st.j - 1
        hit == BitAnd(st.d, window_df(config)) # 0
        rem == IF hit /\ j1 = 0 /\ is_large_pattern(config)
               THEN IF i + WORD_SIZE_IN_BITS > Len(src) THEN "panic"
                    ELSE find_remaining(SliceFrom(src, i + WORD_SIZE_IN_BITS),
                                        SliceFrom(config.pattern, WORD_SIZE_IN_BITS),
                                        config.wildcard)
               ELSE "none"
        last == IF hit THEN j1 ELSE st.last
    IN  IF hit /\ j1 = 0 /\ (~is_large_pattern(config) \/ rem = "true")
        THEN WindowState("found", j1, st.last, st.d)
        ELSE IF rem = "panic" \/ OutOfRange(src, i + j1 - 1)
        THEN WindowState("panic", j1, last, st.d)
        ELSE WindowState("continue", j1, last,
                 BitAnd(Shl(st.d, 1), config.masks[Idx(src, i + j1 - 1)]))

\* A variant of the long-pattern path that records `last = j` before
\* `j += 1`.
inner_body_last_before_increment(src, config, i, st) ==
    LET j1 == st.j - 1
        hit == BitAnd(st.d, window_df(config)) # 0
        rem == IF hit /\ j1 = 0 /\ is_large_pattern(config)
               THEN IF i + WORD_SIZE_IN_BITS > Len(src) THEN "panic"
                    ELSE find_remaining(SliceFrom(src, i + WORD_SIZE_IN_BITS),
                                        SliceFrom(config.pattern, WORD_SIZE_IN_BITS),
                                        config.wildcard)
               ELSE "none"
        j2 == IF rem = "false" THEN j1 + 1 ELSE j1
        last == IF hit THEN j1 ELSE st.last
    IN  IF hit /\ j1 = 0 /\ (~is_large_pattern(config) \/ rem = "true")
        THEN WindowState("found", j1, st.last, st.d)
        ELSE IF rem = "panic" \/ OutOfRange(src, i + j2 - 1)
        THEN WindowState("panic", j2, last, st.d)
        ELSE WindowState("continue", j2, last,
                 BitAnd(Shl(st.d, 1), config.masks[Idx(src, i + j2 - 1)]))

\* The body of `while d != 0`, of find_small_pattern or find_large_pattern
\* by the pattern's length.
inner_body(src, config, i, st) ==
    LET j1 == st.j - 1
        hit == BitAnd(st.d, window_df(config)) # 0
        rem == IF hit /\ j1 = 0 /\ is_large_pattern(config)
               THEN IF i + WORD_SIZE_IN_BITS > Len(src) THEN "panic"
                    ELSE find_remaining(SliceFrom(src, i + WORD_SIZE_IN_BITS),
                                        SliceFrom(config.pattern, WORD_SIZE_IN_BITS),
                                        config.wildcard)
               ELSE "none"
        j2 == IF rem = "false" THEN j1 + 1 ELSE j1
        last == IF hit THEN j2 ELSE st.last
    IN  IF hit /\ j1 = 0 /\ (~is_large_pattern(config) \/ rem = "true")
        THEN WindowState("found", j1, st.last, st.d)
        ELSE IF rem = "panic" \/ j1 < 0 \/ OutOfRange(src, i + j2 - 1)
        THEN WindowState("panic", j2, last, st.d)
        ELSE WindowState("continue", j2, last,
                 BitAnd(Shl(st.d, 1), config.masks[Idx(src, i + j2 - 1)]))

---------------------------------------------------------------------------
(* The search, step by step, on every bounded source and pattern.           *)

WindowBytes == {1, 2}

\* The BndmConfig of the call, with its masks table.
CurrentConfig == [pattern |-> pattern, wildcard |-> wildcard, masks |-> window_masks]

CurrentWindow == WindowState("continue", window_j, window_last, window_d)

InitWindow ==
    /\ pc = "find_pattern"
    /\ source \in SeqsUpTo(WindowBytes, MaxSourceLen)
    /\ pattern \in SeqsUpTo(WindowBytes, MaxPatternLen)
    /\ wildcard \in WildcardChoices
    /\ result = None
    /\ window_masks = Masks(BndmConfig_new(pattern, wildcard))
    /\ window_i = 0
    /\ window_j = 0
    /\ window_last = 0
    /\ window_d = 0
    /\ LoadIdle
    /\ SplitIdle
    /\ PoolIdle
    /\ ValueIdle
    /\ ParseIdle
    /\ ConvertIdle
    /\ VerifyIdle
    /\ RunIdle
    /\ ScanIdle

windowRest == <<source, pattern, wildcard, loadVars, splitVars, poolVars, valueVars,
                parseVars, convertVars, verifyVars, runVars, scanVars>>

SetWindow(st) ==
    /\ window_j' = st.j
    /\ window_last' = st.last
    /\ window_d' = st.d

\* find_pattern, the arms that do not search: the empty pattern, the
\* one-byte pattern, the pattern longer than the source.
FindPatternDirect ==
    /\ pc = "find_pattern"
    /\ Len(pattern) <= 1 \/ Len(pattern) > Len(source)
    /\ result' = find_pattern(source, CurrentConfig)
    /\ pc' = "returned"
    /\ UNCHANGED windowVars
    /\ UNCHANGED windowRest

\* find_small_pattern or find_large_pattern is entered: let mut i = 0
FindPatternSearch ==
    /\ pc = "find_pattern"
    /\ Len(pattern) > 1
    /\ Len(pattern) <= Len(source)
    /\ window_i' = 0
    /\ pc' = IF window_end(source, CurrentConfig) < 0 \/ window_len(CurrentConfig) < 0
             THEN "panicked" ELSE "outer"
    /\ UNCHANGED <<result, window_j, window_last, window_d, window_masks>>
    /\ UNCHANGED windowRest

\* `while i < end` is left: None
OuterLoopExit ==
    /\ pc = "outer"
    /\ ~(window_i < window_end(source, CurrentConfig))
    /\ result' = None
    /\ pc' = "returned"
    /\ UNCHANGED windowVars
    /\ UNCHANGED windowRest

\* `while i < end` is entered.
OuterLoopEnter ==
    /\ pc = "outer"
    /\ window_i < window_end(source, CurrentConfig)
    /\ \E st \in {outer_body(source, CurrentConfig, window_i)} :
           /\ SetWindow(st)
           /\ pc' = IF st.status = "panic" THEN "panicked" ELSE "inner"
    /\ UNCHANGED <<result, window_i, window_masks>>
    /\ UNCHANGED windowRest

\* One iteration of `while d != 0`.
InnerLoopStep ==
    /\ pc = "inner"
    /\ window_d # 0
    /\ \E st \in {inner_body(source, CurrentConfig, window_i, CurrentWindow)} :
           /\ SetWindow(st)
           /\ result' = IF st.status = "found" THEN Some(window_i) ELSE result
           /\ pc' = CASE st.status = "found" -> "returned"
                      [] st.status = "panic" -> "panicked"
                      [] OTHER -> "inner"
    /\ UNCHANGED <<window_i, window_masks>>
    /\ UNCHANGED windowRest

\* `while d != 0` is left: i += last
InnerLoopExit ==
    /\ pc = "inner"
    /\ window_d = 0
    /\ window_i' = window_i + window_last
    /\ pc' = "outer"
    /\ UNCHANGED <<result, window_j, window_last, window_d, window_masks>>
    /\ UNCHANGED windowRest

NextWindow ==
    \/ FindPatternDirect
    \/ FindPatternSearch
    \/ OuterLoopExit
    \/ OuterLoopEnter
    \/ InnerLoopStep
    \/ InnerLoopExit

SpecWindow == InitWindow /\ [][NextWindow]_vars

\* The search runs on: a call that can take a step takes it.
SpecWindowFair == SpecWindow /\ WF_vars(NextWindow)

---------------------------------------------------------------------------
(* Claims on the stepped search.                                            *)

\* min(N, W)
MinNW == IF Len(pattern) < WORD_SIZE_IN_BITS THEN Len(pattern) ELSE WORD_SIZE_IN_BITS

\* Every index the next read of the inner loop uses is inside the source.
WindowReadsInBounds ==
    /\ window_i + window_j - 1 >= 0
    /\ window_i + window_j <= Len(source) - 1
    /\ is_large_pattern(CurrentConfig) => window_i + WORD_SIZE_IN_BITS <= Len(source)

\* C25: find_pattern is total. For every source and every pattern, of any
\* length, with or without a wildcard, no read of the source leaves its
\* bounds and i + j - 1 never underflows; while the inner loop runs with
\* d # 0, j is at least 1, and when this iteration brings j to 0 the high
\* bit df of d is set.
C25_FindPatternIsTotal ==
    /\ pc # "panicked"
    /\ result # Panic
    /\ pc = "inner" => WindowReadsInBounds
    /\ (pc = "inner" /\ window_d # 0) => window_j >= 1
    /\ (pc = "inner" /\ window_d # 0 /\ window_j = 1)
           => BitAnd(window_d, window_df(CurrentConfig)) # 0

\* A long pattern in a window that is not the first, the inner loop about
\* to bring j to 0.
C25_Witness ==
    /\ pc = "inner"
    /\ is_large_pattern(CurrentConfig)
    /\ window_i > 0
    /\ window_d # 0
    /\ window_j = 1

\* C26: the search terminates. Every advance of the window is by `last`
\* with 1 <= last <= min(N, W) - 1; in the inner loop j starts at
\* min(N, W) - 1, needs j >= 1 to take a step, and every step that stays
\* in the loop lowers j by one or leaves d = 0, so the loop shifts at most
\* min(N, W) times; the call returns.
C26_SearchTerminates ==
    /\ [][(pc = "inner" /\ pc' = "outer")
             => /\ window_i' = window_i + window_last
                /\ 1 <= window_last
                /\ window_last <= MinNW - 1]_vars
    /\ [][(pc = "outer" /\ pc' = "inner") => window_j' = MinNW - 1]_vars
    /\ [][(pc = "inner" /\ pc' = "inner")
             => /\ window_d # 0
                /\ window_j >= 1
                /\ window_j' = window_j - 1 \/ window_d' = 0]_vars
    /\ <>(pc = "returned")

\* The window has advanced by more than one position.
C26_Witness ==
    /\ pc = "outer"
    /\ window_last >= 2
    /\ window_i >= 2 * window_last

---------------------------------------------------------------------------
(* main.rs: the thread pool of run. The scans of the files are tasks of a   *)
(* rayon pool of cpu_threads workers; collect() waits for all of them.      *)

\* The most worker threads enumerated.
MaxThreads == 2

\* The enumerated files that can be read.
PoolFiles == {f \in SampleRunFiles : f.readable}

TaskResult(index, info) == [index |-> index, info |-> info]

\* The closure of map: the scan of one file.
scan_task(file, sigs, multiple) ==
    PlayerInfo(find_players_in_file(file, sigs, multiple).matches, file.filename)

\* The tasks that a worker is running.
RunningTasks == {k \in DOMAIN task_state : task_state[k] = "running"}

AllTasksDone == \A k \in DOMAIN task_state : task_state[k] = "done"

\* A collect that takes the records in the order the tasks finished.
collect_as_completed(results, u, o) ==
    SelectSeq([r \in DOMAIN results |-> results[r].info],
              LAMBDA info : is_listed(info, u, o))

\* filter and collect: the records of the finished tasks, in the order of
\* their files, the ones that are listed.
collect_players_found(results, u, o) ==
    SelectSeq([k \in DOMAIN results |->
                  (CHOOSE r \in Range(results) : r.index = k).info],
              LAMBDA info : is_listed(info, u, o))

InitPool ==
    /\ pc = "scanning"
    /\ files \in UNION {[1 .. n -> PoolFiles] : n \in 1 .. MaxFiles}
    /\ list_unidentified \in BOOLEAN
    /\ only_list_unidentified \in BOOLEAN
    /\ signatures = RunSignatures
    /\ scan_for_multiple = TRUE
    /\ cpu_threads \in 1 .. MaxThreads
    /\ task_state = [k \in DOMAIN files |-> "pending"]
    /\ task_result = <<>>
    /\ players_found = <<>>
    /\ player_index = 0
    /\ identified_players = 0
    /\ identified_files = 0
    /\ unidentified_files = 0
    /\ processed_files = Len(files)
    /\ filename = <<>>
    /\ data = <<>>
    /\ data_offset = 0
    /\ matches = <<>>
    /\ ValueIdle
    /\ ParseIdle
    /\ ConvertIdle
    /\ VerifyIdle
    /\ LoadIdle
    /\ SplitIdle
    /\ WindowIdle
    /\ BndmIdle

poolRest == <<loadVars, splitVars, windowVars, bndmVars, scanVars, valueVars, parseVars,
              convertVars, verifyVars, files, list_unidentified, only_list_unidentified,
              processed_files, cpu_threads, player_index, identified_players,
              identified_files, unidentified_files>>

\* A free worker takes the scan of a file.
StartTask ==
    /\ pc = "scanning"
    /\ Cardinality(RunningTasks) < cpu_threads
    /\ \E k \in DOMAIN task_state :
          /\ task_state[k] = "pending"
          /\ task_state' = [task_state EXCEPT ![k] = "running"]
    /\ UNCHANGED <<pc, task_result, players_found>>
    /\ UNCHANGED poolRest

\* A worker finishes the scan of its file.
FinishTask ==
    /\ pc = "scanning"
    /\ \E k \in RunningTasks :
          /\ task_state' = [task_state EXCEPT ![k] = "done"]
          /\ task_result' = Append(task_result,
                 TaskResult(k, scan_task(files[k], signatures, scan_for_multiple)))
    /\ UNCHANGED <<pc, players_found>>
    /\ UNCHANGED poolRest

\* collect() returns when every task has finished.
CollectPlayersFound ==
    /\ pc = "scanning"
    /\ AllTasksDone
    /\ players_found' = collect_players_found(task_result, list_unidentified,
                                               only_list_unidentified)
    /\ pc' = "listing"
    /\ UNCHANGED <<task_state, task_result>>
    /\ UNCHANGED poolRest

NextPool ==
    \/ StartTask
    \/ FinishTask
    \/ CollectPlayersFound
    \/ ListUnidentified
    \/ ListIdentified
    \/ SummaryWithIdentified
    \/ SummaryWithoutIdentified

SpecPool == InitPool /\ [][NextPool]_vars

\* What a scan of the files one after the other gives.
SequentialPlayersFound ==
    SelectSeq([k \in DOMAIN files |-> scan_task(files[k], signatures, scan_for_multiple)],
              LAMBDA info : is_listed(info, list_unidentified, only_list_unidentified))

\* C27: for every number of worker threads and every order in which the
\* scans start and finish, the collected list is the list a sequential scan
\* gives (one record per file that passes the listing filter, in the order
\* of the files, with the match list of that file), and the list is only
\* made and displayed after every task has finished.
C27_ParallelDriverIsDeterministic ==
    /\ pc \in {"listing", "summary"} => players_found = SequentialPlayersFound
    /\ (pc \in {"listing", "summary"} \/ players_found # <<>> \/ player_index > 0)
           => AllTasksDone /\ Len(task_result) = Len(files)

\* Three files on two workers, the last file finished first, and a list
\* of at least two different records.
C27_Witness ==
    /\ pc = "listing"
    /\ cpu_threads = 2
    /\ Len(files) = 3
    /\ task_result[1].index = 3
    /\ Len(players_found) >= 2
    /\ players_found[1] # players_found[2]

===========================================================================
